---- MODULE Spec2Model ----
(***************************************************************************)
(* A model of the ALAN-2022 compiler: the generic hash table               *)
(* (hashtable.c), the symbol table built on it (symboltable.c) and the     *)
(* recursive-descent parser that drives both (alanc.c), and the scanner    *)
(* (scanner.c).                                                            *)
(*                                                                         *)
(* Four specifications are given.                                          *)
(*   SymSpec  drives the symbol-table interface with arbitrary bounded     *)
(*            sequences of open_subroutine / insert_name / find_name /     *)
(*            close_subroutine calls after init_symbol_table.              *)
(*   Spec     runs main() of the compiler on a token stream drawn from a   *)
(*            bounded family of programs, one step of main/parse_source    *)
(*            per action.                                                  *)
(*   ScanSpec runs init_scanner and then get_token, call after call, on    *)
(*            the characters of a source file drawn from a bounded family. *)
(*   HtSpec   drives the hash table with ht_insert calls on distinct keys, *)
(*            past the load factor that makes it grow, and ht_search.      *)
(***************************************************************************)
EXTENDS Integers, Sequences, FiniteSets, TLC

VARIABLES
    \* symboltable.c statics and the heap objects they point to
    table, saved_table, curr_offset, heap,
    \* alanc.c globals
    token, return_type, off_counter, counters,
    \* the scanner's remaining output and the emitter's received calls
    src, code,
    \* the process: where main() is, how it ended
    pc, status, exit_code, err,
    \* the environment: the program text given, and what a read through an
    \* uninitialised pointer yields in this run
    input, wild,
    \* scanner.c statics: the source file with its read offset, the next
    \* source character, the column counter, next_char's static last_read;
    \* error.h's global position; what a fresh malloc block holds in this run
    src_file, ch, column_number, last_read, position, junk,
    \* observation of the symbol-table interface (SymSpec)
    nops, opened, preTable, outerSnap, inner, last

vars == << table, saved_table, curr_offset, heap, token, return_type,
           off_counter, counters, src, code, pc, status, exit_code, err,
           input, wild, src_file, ch, column_number, last_read, position,
           junk, nops, opened, preTable, outerSnap, inner, last >>

scanner_vars == << src_file, ch, column_number, last_read, position, junk >>

----------------------------------------------------------------------------
(* Bounds *)

\* number of symbol-table interface calls explored by SymSpec
MaxOps == 5

\* longest parameter list of a function definition, and longest argument
\* list of a call, in the programs given to the compiler
MaxParams == 2
MaxArgs == 2

----------------------------------------------------------------------------
(* valtypes.h: a ValType is a set of flags *)

TYPE_NONE == {}
TYPE_ARRAY == {"ARRAY"}
TYPE_BOOLEAN == {"BOOLEAN"}
TYPE_INTEGER == {"INTEGER"}
TYPE_CALLABLE == {"CALLABLE"}

IS_CALLABLE_TYPE(type) == TYPE_CALLABLE \subseteq type
IS_PROCEDURE(type) == type = TYPE_CALLABLE

----------------------------------------------------------------------------
(* hashtable.c *)

NULL == 0
EXIT_SUCCESS == 0
EXIT_FAILURE == 1
INITIAL_DELTA_INDEX == 4

delta == << 0, 0, 1, 1, 3, 1, 3, 1, 5, 3, 3, 9, 3, 1, 3, 19,
            15, 1, 5, 1, 3, 9, 3, 15, 3, 39, 5, 39, 57, 3, 35, 1 >>

\* delta[] is a C array, indexed from 0
delta_at(i) == delta[i + 1]

RECURSIVE pow2(_)
pow2(k) == IF k = 0 THEN 1 ELSE 2 * pow2(k - 1)

\* getsize: advances ht->idx and returns 2^idx - delta[idx]
getsize(ht) ==
    LET l == ht.idx + 1
    IN  [ht |-> [ht EXCEPT !.idx = l], new_size |-> pow2(l) - delta_at(l)]

\* the one-letter identifiers the model uses, in the order of their bytes
KeyLetters ==
    << "a", "b", "c", "d", "e", "f", "g", "h", "i", "j", "k", "l", "m",
       "n", "o", "p", "q", "r", "s", "t", "u", "v", "w", "x", "y", "z" >>

\* the bytes of the identifiers the model uses (C strings): 'a' is 97
strbytes(id) ==
    IF \E i \in 1 .. Len(KeyLetters) : KeyLetters[i] = id
    THEN << 96 + CHOOSE i \in 1 .. Len(KeyLetters) : KeyLetters[i] = id >>
    ELSE IF id = "P" THEN << 80 >>
    ELSE << >>

INT_MAX == 2147483647
INT_MIN == (-2147483647) - 1
TwoPow26 == 67108864
TwoPow27 == 134217728
TwoPow16 == 65536

\* (h << 5) | (h >> 27) on a 32-bit int: for h >= 0 the two operands share
\* no bit; for h < 0 the arithmetic shift right has every bit above bit 4 set
rot5(h) ==
    IF h >= 0
    THEN LET lo == h % TwoPow27
             shl == IF lo < TwoPow26 THEN lo * 32
                    ELSE ((lo - TwoPow26) * 32) + INT_MIN
         IN  shl + (h \div TwoPow27)
    ELSE h \div TwoPow27

\* h += c on a 32-bit int, wrapping
add32(h, c) ==
    IF h > INT_MAX - c THEN (h - INT_MAX - 1) + ((c - INT_MAX) - 1)
    ELSE h + c

RECURSIVE hash_loop(_, _, _)
hash_loop(temp, i, h) ==
    IF i > Len(temp) THEN h
    ELSE hash_loop(temp, i + 1, add32(rot5(h), temp[i]))

\* h % size with h converted to unsigned int
umod(h, m) ==
    IF h >= 0 THEN h % m
    ELSE ((h % m) + (((TwoPow16 % m) * (TwoPow16 % m)) % m)) % m

\* symboltable.c shift_hash
shift_hash(key, size) == umod(hash_loop(strbytes(key), 1, 0), size - 1)

\* ht_init
ht_init_obj ==
    LET g == getsize([size |-> 0, num_entries |-> 0, idx |-> INITIAL_DELTA_INDEX,
                      table |-> << >>, released |-> FALSE])
    IN  [g.ht EXCEPT !.size = g.new_size,
                     !.table = [k \in 0 .. (g.new_size - 1) |-> << >>]]

\* rehash: relocates every chain entry, then ht_free(ht) releases the
\* container itself before ht->table and ht->size are stored through it
RECURSIVE relocate(_, _, _, _)
relocate(old, oldidx, new_table, new_size) ==
    IF oldidx >= old.size THEN new_table
    ELSE LET chain == old.table[oldidx]
             RECURSIVE put(_, _)
             put(i, nt) ==
                 IF i > Len(chain) THEN nt
                 ELSE LET newidx == shift_hash(chain[i].key, new_size)
                      IN  put(i + 1, [nt EXCEPT ![newidx] = Append(@, chain[i])])
         IN  relocate(old, oldidx + 1, put(1, new_table), new_size)

rehash(ht) ==
    LET g == getsize(ht)
        new_table == relocate(ht, 0, [k \in 0 .. (g.new_size - 1) |-> << >>],
                              g.new_size)
    IN  [g.ht EXCEPT !.table = new_table, !.size = g.new_size,
                     !.released = TRUE]

\* ht_insert: appends to the end of the bucket's chain; never compares keys
ht_insert(ht, key, value) ==
    LET N == ht.size
        k == shift_hash(key, ht.size)
        h1 == [ht EXCEPT !.table[k] = Append(@, [key |-> key, value |-> value]),
                         !.num_entries = @ + 1]
    IN  IF 4 * h1.num_entries > 3 * N THEN rehash(h1) ELSE h1

\* ht_search: the first entry of the bucket's chain whose key compares equal
ht_search(ht, key) ==
    LET chain == ht.table[shift_hash(key, ht.size)]
        hits == {i \in 1 .. Len(chain) : chain[i].key = key}
    IN  IF hits = {} THEN [found |-> FALSE]
        ELSE [found |-> TRUE,
              value |-> chain[CHOOSE i \in hits : \A j \in hits : i <= j].value]

\* ht_free: releases keys, values, the bucket array and the container
ht_free(ht) == [ht EXCEPT !.released = TRUE]

----------------------------------------------------------------------------
(* symboltable.c *)

\* alanc.c idprop: the property record of an identifier
idprop(type, offset, nparams, params) ==
    [type |-> type, offset |-> offset, nparams |-> nparams, params |-> params]

\* the value of an IDprop pointer variable that was never assigned
WILD == idprop({"uninitialised"}, 0, 0, << >>)

\* what the process becomes when it dereferences a null pointer
SIGSEGV == 139

segv(s) == [s EXCEPT !.status = "signal", !.exit_code = SIGSEGV]

\* the handle malloc returns for a new HashTab
new_handle(hp) == IF DOMAIN hp = {} THEN 1
                  ELSE 1 + CHOOSE h \in DOMAIN hp : \A g \in DOMAIN hp : g <= h

\* init_symbol_table
init_symbol_table(s) ==
    LET h == new_handle(s.heap)
    IN  [s EXCEPT !.saved_table = NULL,
                  !.table = h,
                  !.heap = (h :> ht_init_obj) @@ s.heap,
                  !.curr_offset = 1]

\* open_subroutine: returns right after ht_insert; the statements that save
\* the table and create the subroutine's table come after the return
open_subroutine(s, id, prop) ==
    IF s.status # "run" THEN [s |-> s, ret |-> FALSE]
    ELSE IF s.table = NULL THEN [s |-> segv(s), ret |-> FALSE]
    ELSE [s |-> [s EXCEPT !.heap[s.table] = ht_insert(@, id, prop)],
          ret |-> TRUE]

\* close_subroutine
close_subroutine(s) ==
    IF s.status # "run" THEN s
    ELSE IF s.table = NULL THEN segv(s)
    ELSE [s EXCEPT !.heap[s.table] = ht_free(@), !.table = s.saved_table]

\* find_name: prop is the caller's pointer variable, written only on a hit
find_name(s, id, prop) ==
    IF s.status # "run" THEN [s |-> s, found |-> FALSE, prop |-> prop]
    ELSE IF s.table = NULL THEN [s |-> segv(s), found |-> FALSE, prop |-> prop]
    ELSE LET r1 == ht_search(s.heap[s.table], id)
         IN  IF r1.found THEN [s |-> s, found |-> TRUE, prop |-> r1.value]
             ELSE IF s.saved_table # NULL
             THEN LET r2 == ht_search(s.heap[s.saved_table], id)
                  IN  IF r2.found
                      THEN [s |-> s,
                            found |-> IS_CALLABLE_TYPE(r2.value.type),
                            prop |-> r2.value]
                      ELSE [s |-> s, found |-> FALSE, prop |-> prop]
             ELSE [s |-> s, found |-> FALSE, prop |-> prop]

\* insert_name
insert_name(s, id, prop) ==
    LET f == find_name(s, id, prop)
    IN  IF f.s.status # "run" THEN [s |-> f.s, ret |-> FALSE]
        ELSE IF ~f.found
        THEN [s |-> [f.s EXCEPT !.heap[f.s.table] = ht_insert(@, id, f.prop)],
              ret |-> TRUE]
        ELSE [s |-> f.s, ret |-> FALSE]

\* get_variables_width
get_variables_width(s) == s.curr_offset

----------------------------------------------------------------------------
(* The program state as one value, for the operators above and below *)

State ==
    [table |-> table, saved_table |-> saved_table, curr_offset |-> curr_offset,
     heap |-> heap, token |-> token, return_type |-> return_type,
     off_counter |-> off_counter, counters |-> counters, src |-> src,
     code |-> code, status |-> status, exit_code |-> exit_code, err |-> err,
     wild |-> wild]

Install(s) ==
    /\ table' = s.table
    /\ saved_table' = s.saved_table
    /\ curr_offset' = s.curr_offset
    /\ heap' = s.heap
    /\ token' = s.token
    /\ return_type' = s.return_type
    /\ off_counter' = s.off_counter
    /\ counters' = s.counters
    /\ src' = s.src
    /\ code' = s.code
    /\ status' = s.status
    /\ exit_code' = s.exit_code
    /\ err' = s.err
    /\ wild' = s.wild

Starts(s) ==
    /\ table = s.table
    /\ saved_table = s.saved_table
    /\ curr_offset = s.curr_offset
    /\ heap = s.heap
    /\ token = s.token
    /\ return_type = s.return_type
    /\ off_counter = s.off_counter
    /\ counters = s.counters
    /\ src = s.src
    /\ code = s.code
    /\ status = s.status
    /\ exit_code = s.exit_code
    /\ err = s.err
    /\ wild = s.wild

\* the statics of scanner.c and error.h's position as the loader leaves
\* them (zero-initialised), no file opened
ScannerClosed ==
    /\ src_file = [bytes |-> << >>, offset |-> 0]
    /\ ch = "NUL"
    /\ column_number = 0
    /\ last_read = "NUL"
    /\ position = [line |-> 0, col |-> 0]
    /\ junk = << >>

\* the globals of alanc.c as the loader leaves them (zero-initialised)
Token0 == [type |-> "TOKEN_EOF", lexeme |-> "", value |-> 0, string |-> ""]

Globals0 ==
    [table |-> NULL, saved_table |-> NULL, curr_offset |-> 0, heap |-> << >>,
     token |-> Token0, return_type |-> TYPE_NONE, off_counter |-> 0,
     counters |-> 0, src |-> << >>, code |-> << >>, status |-> "run",
     exit_code |-> EXIT_SUCCESS, err |-> "none",
     wild |-> [segv |-> TRUE, prop |-> WILD]]

NoCall == [op |-> "none", id |-> "", prop |-> WILD, ret |-> FALSE,
           found |-> FALSE, value |-> WILD, present |-> FALSE,
           wasInner |-> FALSE, before |-> NULL]

----------------------------------------------------------------------------
(* SymSpec: the symbol-table interface under arbitrary call sequences *)

SymIds == {"f", "x"}

VarProps == {idprop(TYPE_INTEGER, 1, 0, << >>), idprop(TYPE_BOOLEAN, 2, 0, << >>)}
CallProps == {idprop(TYPE_CALLABLE, 1, 0, << >>),
              idprop(TYPE_CALLABLE, 1, 1, << TYPE_INTEGER >>)}

\* is id a key of table object ht
HasKey(ht, id) == ht_search(ht, id).found

SymInit ==
    /\ Starts(init_symbol_table(Globals0))
    /\ ScannerClosed
    /\ pc = "symtab"
    /\ input = << >>
    /\ nops = 0
    /\ opened = FALSE
    /\ preTable = NULL
    /\ outerSnap = NULL
    /\ inner = << >>
    /\ last = NoCall

\* open_subroutine(id, prop), called when no subroutine is open
SymOpen ==
    /\ pc = "symtab" /\ status = "run" /\ nops < MaxOps /\ ~opened
    /\ \E id \in SymIds, prop \in CallProps :
         LET r == open_subroutine(State, id, prop)
         IN  /\ Install(r.s)
             /\ opened' = TRUE
             /\ preTable' = table
             /\ outerSnap' = IF table = NULL THEN NULL
                             ELSE [before |-> heap[table], id |-> id,
                                   prop |-> prop]
             /\ inner' = << >>
             /\ last' = [NoCall EXCEPT !.op = "open", !.id = id, !.prop = prop,
                            !.ret = r.ret,
                            !.present = (table # NULL /\ HasKey(heap[table], id)),
                            !.before = IF table = NULL THEN NULL ELSE heap[table]]
    /\ nops' = nops + 1
    /\ UNCHANGED scanner_vars
    /\ UNCHANGED << pc, input >>

\* insert_name(id, prop)
SymInsert ==
    /\ pc = "symtab" /\ status = "run" /\ nops < MaxOps
    /\ \E id \in SymIds, prop \in VarProps :
         LET r == insert_name(State, id, prop)
         IN  /\ Install(r.s)
             /\ inner' = IF opened /\ r.ret THEN (id :> prop) @@ inner ELSE inner
             /\ last' = [NoCall EXCEPT !.op = "insert", !.id = id, !.prop = prop,
                            !.ret = r.ret,
                            !.present = (table # NULL /\ HasKey(heap[table], id)),
                            !.wasInner = (id \in DOMAIN inner),
                            !.before = IF table = NULL THEN NULL ELSE heap[table]]
    /\ nops' = nops + 1
    /\ UNCHANGED scanner_vars
    /\ UNCHANGED << pc, input, opened, preTable, outerSnap >>

\* find_name(id, &prop) with prop not yet assigned
SymFind ==
    /\ pc = "symtab" /\ status = "run" /\ nops < MaxOps
    /\ \E id \in SymIds :
         LET r == find_name(State, id, WILD)
         IN  /\ Install(r.s)
             /\ last' = [NoCall EXCEPT !.op = "find", !.id = id,
                            !.found = r.found, !.value = r.prop,
                            !.wasInner = (id \in DOMAIN inner)]
    /\ nops' = nops + 1
    /\ UNCHANGED scanner_vars
    /\ UNCHANGED << pc, input, opened, preTable, outerSnap, inner >>

\* close_subroutine(), called while a subroutine is open
SymClose ==
    /\ pc = "symtab" /\ status = "run" /\ nops < MaxOps /\ opened
    /\ Install(close_subroutine(State))
    /\ opened' = FALSE
    /\ last' = [NoCall EXCEPT !.op = "close"]
    /\ nops' = nops + 1
    /\ UNCHANGED scanner_vars
    /\ UNCHANGED << pc, input, preTable, outerSnap, inner >>

SymNext == SymOpen \/ SymInsert \/ SymFind \/ SymClose

SymSpec == SymInit /\ [][SymNext]_vars

----------------------------------------------------------------------------
(* Claims about the symbol-table interface (checked under SymSpec) *)

\* the entry the outer scope holds for id while a subroutine is open: what
\* the scope held before open_subroutine, plus the subroutine's own name
OuterEntry(id) ==
    IF HasKey(outerSnap.before, id) THEN ht_search(outerSnap.before, id)
    ELSE IF id = outerSnap.id THEN [found |-> TRUE, value |-> outerSnap.prop]
    ELSE [found |-> FALSE]

\* the keys of every chain of table object ht, in bucket order
RECURSIVE KeysFrom(_, _)
KeysFrom(ht, k) ==
    IF k >= ht.size THEN << >>
    ELSE [i \in 1 .. Len(ht.table[k]) |-> ht.table[k][i].key] \o KeysFrom(ht, k + 1)

NoTwoEntriesWithOneKey(ht) ==
    LET ks == KeysFrom(ht, 0)
    IN  \A i, j \in 1 .. Len(ks) : ks[i] = ks[j] => i = j

\* C2: while a subroutine is open, find(x) returns the inner-scope entry for
\* x if one exists; otherwise the outer-scope entry for x if and only if it
\* is callable; otherwise it reports not found.
C2_FindWhileOpen ==
    (opened /\ status = "run" /\ last.op = "find") =>
        IF last.wasInner
        THEN last.found /\ last.value = inner[last.id]
        ELSE LET o == OuterEntry(last.id)
             IN  IF o.found /\ IS_CALLABLE_TYPE(o.value.type)
                 THEN last.found /\ last.value = o.value
                 ELSE ~last.found

\* C3: after open_subroutine, any inserts and close_subroutine, the current
\* scope is again the scope saved at open, it is not released, and it holds
\* exactly what it held before the open plus the subroutine's name.
C3_CloseRestoresOuter ==
    (status = "run" /\ last.op = "close") =>
        /\ table = preTable
        /\ table # NULL
        /\ ~heap[table].released
        /\ \A id \in SymIds : ht_search(heap[table], id) = OuterEntry(id)

\* C4: a successful open_subroutine saves the scope that was current as the
\* outer scope and makes a fresh scope current, so that names inserted while
\* the subroutine is open are not stored in the global scope.
C4_OpenCreatesInnerScope ==
    (opened /\ status = "run") =>
        /\ saved_table = preTable
        /\ table # preTable
        /\ \A id \in DOMAIN inner :
              HasKey(heap[preTable], id) => HasKey(outerSnap.before, id)

\* C6: insert and open_subroutine fail on a name that is already a key of
\* the current scope and leave the table unchanged; no scope ever holds two
\* entries with the same name.
C6_DuplicateNameFails ==
    /\ \A h \in DOMAIN heap : NoTwoEntriesWithOneKey(heap[h])
    /\ (status = "run" /\ last.op \in {"insert", "open"} /\ last.present) =>
          (~last.ret /\ heap[table] = last.before)

\* C7: while a subroutine is open, inserting a name that is absent from the
\* inner scope succeeds and stores exactly the given prop, whatever the outer
\* scope holds for that name.
C7_InsertIgnoresOuter ==
    (opened /\ status = "run" /\ last.op = "insert" /\ ~last.wasInner) =>
        /\ last.ret
        /\ find_name(State, last.id, WILD).found
        /\ find_name(State, last.id, WILD).prop = last.prop

----------------------------------------------------------------------------
(* alanc.c: the scanner's output, the emitter's input, the helpers *)

\* one token as the scanner delivers it
Tok(type) == [type |-> type, lexeme |-> "", value |-> 0, string |-> ""]
Id(name) == [type |-> "TOKEN_ID", lexeme |-> name, value |-> 0, string |-> ""]
Num(v) == [type |-> "TOKEN_NUMBER", lexeme |-> "", value |-> v, string |-> ""]
Str(str) == [type |-> "TOKEN_STRING", lexeme |-> "", value |-> 0, string |-> str]

\* get_token as the parser sees it: the next token of the stream, TOKEN_EOF
\* once the stream is exhausted; only the field of the token's kind is written
get_token(s) ==
    IF s.status # "run" THEN s
    ELSE IF s.src = << >> THEN [s EXCEPT !.token.type = "TOKEN_EOF"]
    ELSE LET t == Head(s.src)
         IN  [s EXCEPT !.src = Tail(s.src),
                       !.token.type = t.type,
                       !.token.lexeme = IF t.type = "TOKEN_ID" THEN t.lexeme ELSE @,
                       !.token.value = IF t.type = "TOKEN_NUMBER" THEN t.value ELSE @,
                       !.token.string = IF t.type = "TOKEN_STRING" THEN t.string ELSE @]

STARTS_FACTOR(toktype) ==
    toktype \in {"TOKEN_ID", "TOKEN_NUMBER", "TOKEN_OPEN_PARENTHESIS",
                 "TOKEN_NOT", "TOKEN_TRUE", "TOKEN_FALSE"}

STARTS_EXPR(toktype) == toktype = "TOKEN_MINUS" \/ STARTS_FACTOR(toktype)

IS_ADDOP(toktype) == toktype \in {"TOKEN_MINUS", "TOKEN_OR", "TOKEN_PLUS"}

IS_MULOP(toktype) ==
    toktype \in {"TOKEN_AND", "TOKEN_DIVIDE", "TOKEN_MULTIPLY", "TOKEN_REMAINDER"}

IS_ORDOP(toktype) == toktype \in {"TOKEN_EQUAL", "TOKEN_NOT_EQUAL"}

IS_RELOP(toktype) ==
    toktype \in {"TOKEN_GREATER_EQUAL", "TOKEN_GREATER_THAN",
                 "TOKEN_LESS_EQUAL", "TOKEN_LESS_THAN"}

IS_TYPE_TOKEN(toktype) == toktype \in {"TOKEN_BOOLEAN", "TOKEN_INTEGER"}

\* abort_compile, abort_compile_pos: exit(0) is the first statement
abort_compile(s, e) ==
    IF s.status # "run" THEN s
    ELSE [s EXCEPT !.status = "exit", !.exit_code = 0, !.err = e]

\* a call of the emitter (codegen.h), recorded in the order received
gen(s, op, a, n) ==
    IF s.status # "run" THEN s
    ELSE [s EXCEPT !.code = Append(@, [op |-> op, a |-> a, n |-> n])]

gen_1(s, opcode) == gen(s, "gen_1", opcode, 0)
gen_2(s, opcode, operand) == gen(s, "gen_2", opcode, operand)
gen_cmp(s, opcode) == gen(s, "gen_cmp", opcode, 0)
gen_newarray(s, atype) == gen(s, "gen_newarray", atype, 0)
gen_print(s, type) ==
    gen(s, "gen_print",
        IF type = TYPE_BOOLEAN THEN "boolean"
        ELSE IF type = TYPE_INTEGER THEN "integer" ELSE "other", 0)
gen_print_string(s, str) == gen(s, "gen_print_string", str, 0)
gen_call(s, fname) == gen(s, "gen_call", fname, 0)

\* a read through an IDprop pointer: through one that find_name never wrote
\* the process either faults or reads whatever the memory holds
deref(s, p) ==
    IF s.status # "run" THEN [s |-> s, v |-> p]
    ELSE IF p # WILD THEN [s |-> s, v |-> p]
    ELSE IF s.wild.segv THEN [s |-> segv(s), v |-> p]
    ELSE [s |-> s, v |-> s.wild.prop]

\* expect
expect(s, type) ==
    IF s.status # "run" THEN s
    ELSE IF s.token.type = type THEN get_token(s)
    ELSE abort_compile(s, "ERR_EXPECT")

\* expect_id: id is the caller's char * variable
expect_id(s) ==
    IF s.status # "run" THEN [s |-> s, id |-> ""]
    ELSE IF s.token.type = "TOKEN_ID"
    THEN [s |-> get_token(s), id |-> s.token.lexeme]
    ELSE [s |-> abort_compile(s, "ERR_EXPECT"), id |-> ""]

\* parse_type; every caller passes &return_type
parse_type(s) ==
    IF s.status # "run" THEN s
    ELSE IF s.token.type = "TOKEN_BOOLEAN"
    THEN LET s1 == get_token([s EXCEPT !.return_type = TYPE_BOOLEAN])
         IN  IF s1.token.type = "TOKEN_ARRAY"
             THEN gen_newarray(get_token(s1), "T_BOOLEAN")
             ELSE s1
    ELSE IF s.token.type = "TOKEN_INTEGER"
    THEN LET s1 == expect([s EXCEPT !.return_type = TYPE_INTEGER], "TOKEN_INTEGER")
         IN  IF s1.token.type = "TOKEN_ARRAY"
             THEN gen_newarray(get_token([s1 EXCEPT !.return_type = TYPE_ARRAY]),
                               "T_INT")
             ELSE s1
    ELSE abort_compile(s, "ERR_TYPE_EXPECTED")

----------------------------------------------------------------------------
(* alanc.c: expressions *)

\* v named x in F: the statements after an assignment x = v
Let(v, F(_)) == F(v)

\* an assignment to the global return_type by a routine that is still running
set_return_type(s, type) ==
    IF s.status # "run" THEN s ELSE [s EXCEPT !.return_type = type]

RECURSIVE call(_, _)
RECURSIVE parse_simple_loop(_), parse_term_loop(_), parse_factor_args(_)

\* parse_expr(type); to_rt says that type points to return_type
parse_expr(s, to_rt) ==
    IF s.status # "run" THEN s
    ELSE Let(call("parse_simple", s), LAMBDA s1 :
         IF s1.status = "run" /\ (IS_RELOP(s1.token.type) \/ IS_ORDOP(s1.token.type))
         THEN Let(s1.token.type, LAMBDA op :
              Let(IF to_rt THEN set_return_type(s1, TYPE_BOOLEAN) ELSE s1, LAMBDA s2 :
              Let(call("parse_simple", get_token(s2)), LAMBDA s4 :
              gen_cmp(s4,
                  CASE op = "TOKEN_EQUAL" -> "JVM_IF_ICMPEQ"
                    [] op = "TOKEN_GREATER_EQUAL" -> "JVM_IF_ICMPGE"
                    [] op = "TOKEN_GREATER_THAN" -> "JVM_IF_ICMPGT"
                    [] op = "TOKEN_LESS_EQUAL" -> "JVM_IF_ICMPLE"
                    [] op = "TOKEN_LESS_THAN" -> "JVM_IF_ICMPLT"
                    [] op = "TOKEN_NOT_EQUAL" -> "JVM_IF_ICMPNE"))))
         ELSE s1)

\* parse_simple
parse_simple(s) ==
    IF s.status # "run" THEN s
    ELSE Let(s.token.type = "TOKEN_MINUS", LAMBDA store1 :
         Let(IF store1 THEN expect(s, "TOKEN_MINUS") ELSE s, LAMBDA s1 :
         Let(call("parse_term", s1), LAMBDA s2 :
         parse_simple_loop(IF store1 THEN gen_1(s2, "JVM_INEG") ELSE s2))))

\* parse_simple: while (IS_ADDOP(token.type))
parse_simple_loop(s) ==
    IF s.status # "run" \/ ~IS_ADDOP(s.token.type) THEN s
    ELSE Let(s.token.type, LAMBDA store :
         Let(call("parse_term", get_token(s)), LAMBDA s2 :
         parse_simple_loop(gen_1(s2,
             CASE store = "TOKEN_MINUS" -> "JVM_ISUB"
               [] store = "TOKEN_PLUS" -> "JVM_IADD"
               [] store = "TOKEN_OR" -> "JVM_IOR"))))

\* parse_term
parse_term(s) ==
    IF s.status # "run" THEN s ELSE parse_term_loop(call("parse_factor", s))

\* parse_term_loop with the instruction emitted before the second factor
\* is parsed
RECURSIVE parse_term_loop_early_op(_)
parse_term_loop_early_op(s) ==
    IF s.status # "run" \/ ~IS_MULOP(s.token.type) THEN s
    ELSE Let(s.token.type, LAMBDA temp2 :
         Let(gen_1(get_token(s),
             CASE temp2 = "TOKEN_MULTIPLY" -> "JVM_IMUL"
               [] temp2 = "TOKEN_DIVIDE" -> "JVM_IDIV"
               [] temp2 = "TOKEN_REMAINDER" -> "JVM_IREM"
               [] temp2 = "TOKEN_AND" -> "JVM_IAND"), LAMBDA s2 :
         parse_term_loop_early_op(call("parse_factor", s2))))

\* parse_term: while (IS_MULOP(token.type))
parse_term_loop(s) ==
    IF s.status # "run" \/ ~IS_MULOP(s.token.type) THEN s
    ELSE Let(s.token.type, LAMBDA temp2 :
         Let(call("parse_factor", get_token(s)), LAMBDA s2 :
         parse_term_loop(gen_1(s2,
             CASE temp2 = "TOKEN_MULTIPLY" -> "JVM_IMUL"
               [] temp2 = "TOKEN_DIVIDE" -> "JVM_IDIV"
               [] temp2 = "TOKEN_REMAINDER" -> "JVM_IREM"
               [] temp2 = "TOKEN_AND" -> "JVM_IAND"))))

\* parse_factor; every caller passes &return_type
parse_factor(s) ==
    IF s.status # "run" THEN s
    ELSE IF s.token.type = "TOKEN_ID"
    THEN Let(expect_id(s), LAMBDA e :
         Let(find_name(e.s, e.id, WILD), LAMBDA f :
         Let(deref(f.s, f.prop), LAMBDA store :
         Let(gen_2(store.s, "JVM_ILOAD", store.v.offset - 1), LAMBDA s1 :
         IF s1.token.type = "TOKEN_OPEN_BRACKET"
         THEN Let(get_token(s1), LAMBDA s2 :
              Let(gen_2(s2, "JVM_ALOAD", s2.token.value), LAMBDA s3 :
              Let(call("parse_simple", s3), LAMBDA s4 :
              set_return_type(expect(s4, "TOKEN_CLOSE_BRACKET"), TYPE_INTEGER))))
         ELSE IF s1.token.type = "TOKEN_OPEN_PARENTHESIS"
         THEN Let(get_token(s1), LAMBDA s2 :
              expect(IF STARTS_EXPR(s2.token.type)
                     THEN parse_factor_args(call("parse_expr", s2))
                     ELSE s2,
                     "TOKEN_CLOSE_PARENTHESIS"))
         ELSE s1))))
    ELSE IF s.token.type = "TOKEN_NUMBER"
    THEN set_return_type(get_token(gen_2(s, "JVM_LDC", s.token.value)),
                         TYPE_INTEGER)
    ELSE IF s.token.type = "TOKEN_OPEN_PARENTHESIS"
    THEN expect(call("parse_expr", get_token(s)), "TOKEN_CLOSE_PARENTHESIS")
    ELSE IF s.token.type = "TOKEN_NOT"
    THEN call("parse_factor", get_token(s))
    ELSE IF s.token.type = "TOKEN_TRUE"
    THEN get_token(gen_2(set_return_type(s, TYPE_BOOLEAN), "JVM_LDC", 1))
    ELSE IF s.token.type = "TOKEN_FALSE"
    THEN expect(gen_2(set_return_type(s, TYPE_BOOLEAN), "JVM_LDC", 0),
                "TOKEN_FALSE")
    ELSE abort_compile(s, "ERR_FACTOR_EXPECTED")

\* parse_factor: while (token.type == TOKEN_COMMA) over the arguments
parse_factor_args(s) ==
    IF s.status # "run" \/ s.token.type # "TOKEN_COMMA" THEN s
    ELSE parse_factor_args(call("parse_expr", get_token(s)))

----------------------------------------------------------------------------
(* alanc.c: statements *)

\* parse_vardef: insert_name(vname, idprop(return_type, off_counter, 0, NULL));
\* the result of insert_name is not looked at
vardef_insert(e) ==
    insert_name(e.s, e.id, idprop(e.s.return_type, e.s.off_counter, 0, << >>)).s

\* parse_vardef: while (token.type == TOKEN_COMMA)
RECURSIVE parse_vardef_loop(_)
parse_vardef_loop(s) ==
    IF s.status # "run" \/ s.token.type # "TOKEN_COMMA" THEN s
    ELSE parse_vardef_loop(vardef_insert(
             expect_id(get_token([s EXCEPT !.off_counter = @ + 1]))))

\* parse_vardef
parse_vardef(s) ==
    IF s.status # "run" THEN s
    ELSE Let(parse_type([s EXCEPT !.off_counter = @ + 1]), LAMBDA s1 :
         Let(vardef_insert(expect_id(s1)), LAMBDA s2 :
         expect(parse_vardef_loop(s2), "TOKEN_SEMICOLON")))

RECURSIVE parse_statements_loop(_), parse_call_args(_), parse_if_elsifs(_),
          parse_output_loop(_)

\* parse_statements
parse_statements(s) ==
    IF s.status # "run" THEN s
    ELSE IF s.token.type = "TOKEN_RELAX" THEN expect(s, "TOKEN_RELAX")
    ELSE parse_statements_loop(call("parse_statement", s))

\* parse_statements: while (token.type == TOKEN_SEMICOLON)
parse_statements_loop(s) ==
    IF s.status # "run" \/ s.token.type # "TOKEN_SEMICOLON" THEN s
    ELSE parse_statements_loop(call("parse_statement", get_token(s)))

\* parse_statement
parse_statement(s) ==
    IF s.status # "run" THEN s
    ELSE CASE s.token.type = "TOKEN_ID" -> call("parse_assign", s)
           [] s.token.type = "TOKEN_CALL" -> call("parse_call", s)
           [] s.token.type = "TOKEN_IF" -> call("parse_if", s)
           [] s.token.type = "TOKEN_GET" -> call("parse_input", s)
           [] s.token.type = "TOKEN_LEAVE" -> call("parse_leave", s)
           [] s.token.type = "TOKEN_PUT" -> call("parse_output", s)
           [] s.token.type = "TOKEN_WHILE" -> call("parse_while", s)
           [] OTHER -> abort_compile(s, "ERR_STATEMENT_EXPECTED")

\* parse_assign: if (token.type == TOKEN_OPEN_BRACKET) { ... }; gives the
\* state and the value of tempo
assign_subscript(s) ==
    IF s.status = "run" /\ s.token.type = "TOKEN_OPEN_BRACKET"
    THEN Let(get_token(s), LAMBDA b1 :
         [s |-> expect(call("parse_simple", b1), "TOKEN_CLOSE_BRACKET"),
          tempo |-> IF b1.token.type = "TOKEN_INTEGER" THEN b1.token.value ELSE 0])
    ELSE [s |-> s, tempo |-> 0]

\* parse_assign; the result of find_name is not looked at, and no type is
\* compared
parse_assign(s) ==
    IF s.status # "run" THEN s
    ELSE Let(expect_id(s), LAMBDA e :
         Let(find_name(e.s, e.id, WILD), LAMBDA f :
         Let(assign_subscript(f.s), LAMBDA sb :
         Let(expect(sb.s, "TOKEN_GETS"), LAMBDA s1 :
         IF s1.status # "run" THEN s1
         ELSE IF STARTS_EXPR(s1.token.type)
         THEN Let(call("parse_expr", s1), LAMBDA s2 :
              Let(deref(gen_2(s2, "JVM_ISTORE", s2.counters), f.prop), LAMBDA temp :
              Let(IF temp.v.type = TYPE_ARRAY
                  THEN gen_2(temp.s, "JVM_ASTORE", sb.tempo)
                  ELSE temp.s, LAMBDA s4 :
              IF s4.status # "run" THEN s4
              ELSE [s4 EXCEPT !.counters = @ + 1])))
         ELSE IF s1.token.type = "TOKEN_ARRAY"
         THEN call("parse_simple", expect(s1, "TOKEN_ARRAY"))
         ELSE abort_compile(s1, "ERR_ARRAY_ALLOCATION_OR_EXPRESSION_EXPECTED")))))

\* parse_call; the arguments are neither counted nor typed
parse_call(s) ==
    IF s.status # "run" THEN s
    ELSE Let(expect_id(expect(s, "TOKEN_CALL")), LAMBDA e :
         Let(find_name(e.s, e.id, WILD), LAMBDA f :
         Let(deref(gen_call(f.s, e.id), f.prop), LAMBDA k :
         Let(IF k.s.status = "run" /\ ~IS_PROCEDURE(k.v.type)
             THEN abort_compile(k.s, "ERR_NOT_A_PROCEDURE")
             ELSE k.s, LAMBDA s3 :
         Let(expect(s3, "TOKEN_OPEN_PARENTHESIS"), LAMBDA s4 :
         expect(IF s4.status = "run" /\ STARTS_EXPR(s4.token.type)
                THEN parse_call_args(call("parse_expr", s4))
                ELSE s4,
                "TOKEN_CLOSE_PARENTHESIS"))))))

\* parse_call: while (token.type == TOKEN_COMMA)
parse_call_args(s) ==
    IF s.status # "run" \/ s.token.type # "TOKEN_COMMA" THEN s
    ELSE parse_call_args(call("parse_expr", get_token(s)))

\* parse_if
parse_if(s) ==
    IF s.status # "run" THEN s
    ELSE Let(call("parse_expr", expect(s, "TOKEN_IF")), LAMBDA s2 :
         Let(call("parse_statements", expect(s2, "TOKEN_THEN")), LAMBDA s3 :
         Let(parse_if_elsifs(s3), LAMBDA s4 :
         expect(IF s4.status = "run" /\ s4.token.type = "TOKEN_ELSE"
                THEN call("parse_statements", get_token(s4))
                ELSE s4,
                "TOKEN_END"))))

\* parse_if: while (token.type == TOKEN_ELSIF)
parse_if_elsifs(s) ==
    IF s.status # "run" \/ s.token.type # "TOKEN_ELSIF" THEN s
    ELSE Let(call("parse_expr", get_token(s)), LAMBDA s1 :
         parse_if_elsifs(call("parse_statements", expect(s1, "TOKEN_THEN"))))

\* parse_input
parse_input(s) ==
    IF s.status # "run" THEN s
    ELSE Let(expect_id(expect(s, "TOKEN_GET")), LAMBDA e :
         IF e.s.status = "run" /\ e.s.token.type = "TOKEN_OPEN_BRACKET"
         THEN expect(call("parse_simple", get_token(e.s)), "TOKEN_CLOSE_BRACKET")
         ELSE e.s)

\* parse_leave
parse_leave(s) ==
    IF s.status # "run" THEN s
    ELSE Let(expect(s, "TOKEN_LEAVE"), LAMBDA s1 :
         IF s1.status = "run" /\ STARTS_EXPR(s1.token.type)
         THEN call("parse_expr", s1)
         ELSE s1)

\* parse_output: one operand, a string or an expression
output_operand(s) ==
    IF s.status # "run" THEN s
    ELSE IF s.token.type = "TOKEN_STRING"
    THEN get_token(gen_print_string(s, s.token.string))
    ELSE IF STARTS_EXPR(s.token.type)
    THEN Let(call("parse_expr", s), LAMBDA s2 : gen_print(s2, s2.return_type))
    ELSE abort_compile(s, "ERR_EXPRESSION_OR_STRING_EXPECTED")

\* parse_output
parse_output(s) ==
    IF s.status # "run" THEN s
    ELSE parse_output_loop(output_operand(expect(s, "TOKEN_PUT")))

\* parse_output: while (token.type == TOKEN_CONCATENATE), the same in both
\* branches
parse_output_loop(s) ==
    IF s.status # "run" \/ s.token.type # "TOKEN_CONCATENATE" THEN s
    ELSE parse_output_loop(output_operand(get_token(s)))

\* parse_while; type points to the local store_type
parse_while(s) ==
    IF s.status # "run" THEN s
    ELSE Let(call("parse_expr_local", expect(s, "TOKEN_WHILE")), LAMBDA s2 :
         Let(call("parse_statements", expect(s2, "TOKEN_DO")), LAMBDA s4 :
         expect(s4, "TOKEN_END")))

\* the call of a parser routine
call(routine, s) ==
    CASE routine = "parse_expr" -> parse_expr(s, TRUE)
      [] routine = "parse_expr_local" -> parse_expr(s, FALSE)
      [] routine = "parse_simple" -> parse_simple(s)
      [] routine = "parse_term" -> parse_term(s)
      [] routine = "parse_factor" -> parse_factor(s)
      [] routine = "parse_statements" -> parse_statements(s)
      [] routine = "parse_statement" -> parse_statement(s)
      [] routine = "parse_assign" -> parse_assign(s)
      [] routine = "parse_call" -> parse_call(s)
      [] routine = "parse_if" -> parse_if(s)
      [] routine = "parse_input" -> parse_input(s)
      [] routine = "parse_leave" -> parse_leave(s)
      [] routine = "parse_output" -> parse_output(s)
      [] routine = "parse_while" -> parse_while(s)

\* parse_body: while (IS_TYPE_TOKEN(token.type))
RECURSIVE parse_body_vardefs(_)
parse_body_vardefs(s) ==
    IF s.status # "run" \/ ~IS_TYPE_TOKEN(s.token.type) THEN s
    ELSE parse_body_vardefs(parse_vardef(s))

\* parse_body
parse_body(s) ==
    IF s.status # "run" THEN s
    ELSE expect(call("parse_statements",
                     parse_body_vardefs(expect(s, "TOKEN_BEGIN"))),
                "TOKEN_END")

----------------------------------------------------------------------------
(* alanc.c: function definitions, the source, main *)

\* the content of an element of params[] that was never assigned
UNINIT_TYPE == {"uninitialised"}

\* parse_funcdef: newer = variable(fname, return_type, position), linked
\* behind the last node. The Variable list is r.lst (the nodes' types in link
\* order); r.old is the node old points to: each round moves old to the last
\* node before linking the new one
funcdef_link(r, e) ==
    [s |-> e.s, counter |-> r.counter + 1, old |-> Len(r.lst),
     lst |-> Append(r.lst, e.s.return_type)]

\* parse_funcdef: while (token.type == TOKEN_COMMA)
RECURSIVE parse_funcdef_params(_)
parse_funcdef_params(r) ==
    IF r.s.status # "run" \/ r.s.token.type # "TOKEN_COMMA" THEN r
    ELSE parse_funcdef_params(
             funcdef_link(r, expect_id(parse_type(get_token(r.s)))))

\* parse_funcdef: old = variable(fname, return_type, position)
funcdef_first(e) ==
    [s |-> e.s, counter |-> 1, old |-> 1, lst |-> << e.s.return_type >>]

\* parse_funcdef: while (old) { params[t] = old->type; ... }
funcdef_params(r) ==
    [t \in 1 .. r.counter |->
        IF r.old # 0 /\ r.old + t - 1 <= Len(r.lst)
        THEN r.lst[r.old + t - 1] ELSE UNINIT_TYPE]

\* parse_funcdef: while (token.type == TOKEN_TO)
RECURSIVE parse_funcdef_to(_)
parse_funcdef_to(s) ==
    IF s.status # "run" \/ s.token.type # "TOKEN_TO" THEN s
    ELSE parse_funcdef_to(parse_type(get_token(s)))

\* parse_funcdef
parse_funcdef(s) ==
    IF s.status # "run" THEN s
    ELSE Let(expect_id(expect(s, "TOKEN_FUNCTION")), LAMBDA e :
         Let(expect(e.s, "TOKEN_OPEN_PARENTHESIS"), LAMBDA s2 :
         Let(IF s2.status = "run" /\ IS_TYPE_TOKEN(s2.token.type)
             THEN parse_funcdef_params(funcdef_first(expect_id(parse_type(s2))))
             ELSE [s |-> s2, counter |-> 0, old |-> 0, lst |-> << >>], LAMBDA r :
         Let(parse_funcdef_to(expect(r.s, "TOKEN_CLOSE_PARENTHESIS")), LAMBDA s5 :
         Let(open_subroutine(s5, e.id,
                 idprop(TYPE_CALLABLE, 1, r.counter, funcdef_params(r))).s,
             LAMBDA s6 :
         Let(gen(s6, "init_subroutine_codegen", e.id, r.counter), LAMBDA s7 :
         gen(close_subroutine(parse_body(s7)),
             "close_subroutine_codegen", e.id, r.counter)))))))

\* parse_source up to the loop over the function definitions
parse_source_header(s) ==
    Let(expect_id(expect(s, "TOKEN_SOURCE")), LAMBDA e :
    gen(gen(e.s, "init_code_generation", "", 0), "set_class_name", e.id, 0))

\* parse_source from the end of the loop: the main body
parse_source_body(s) ==
    Let(gen_1(parse_body(gen(s, "init_subroutine_codegen", "main", 1)),
              "JVM_RETURN"), LAMBDA s3 :
    gen(s3, "close_subroutine_codegen", "main", s3.counters + 1))

\* the step main() takes next, or where it stopped
goto(s, label) == IF s.status = "run" THEN label ELSE pc

\* main: init_scanner(src_file); init_symbol_table()
MainInit ==
    /\ pc = "init" /\ status = "run"
    /\ Install(init_symbol_table([State EXCEPT !.src = input]))
    /\ pc' = "get_token"
    /\ UNCHANGED scanner_vars
    /\ UNCHANGED << input, nops, opened, preTable, outerSnap, inner, last >>

\* main: get_token(&token)
MainGetToken ==
    /\ pc = "get_token" /\ status = "run"
    /\ Install(get_token(State))
    /\ pc' = "parse_source"
    /\ UNCHANGED scanner_vars
    /\ UNCHANGED << input, nops, opened, preTable, outerSnap, inner, last >>

\* parse_source: expect(TOKEN_SOURCE) ... set_class_name(class_name)
SourceHeader ==
    /\ pc = "parse_source" /\ status = "run"
    /\ LET s == parse_source_header(State)
       IN  Install(s) /\ pc' = goto(s, "funcdefs")
    /\ UNCHANGED scanner_vars
    /\ UNCHANGED << input, nops, opened, preTable, outerSnap, inner, last >>

\* parse_source: one round of while (token.type == TOKEN_FUNCTION)
SourceFuncdef ==
    /\ pc = "funcdefs" /\ status = "run"
    /\ token.type = "TOKEN_FUNCTION"
    /\ Install(parse_funcdef(State))
    /\ UNCHANGED scanner_vars
    /\ UNCHANGED << pc, input, nops, opened, preTable, outerSnap, inner, last >>

\* parse_source: the main body, up to the return to main
SourceBody ==
    /\ pc = "funcdefs" /\ status = "run"
    /\ token.type # "TOKEN_FUNCTION"
    /\ LET s == parse_source_body(State)
       IN  Install(s) /\ pc' = goto(s, "make_code")
    /\ UNCHANGED scanner_vars
    /\ UNCHANGED << input, nops, opened, preTable, outerSnap, inner, last >>

\* main: make_code_file(); assemble(jasmin_path); ... return EXIT_SUCCESS
MainFinish ==
    /\ pc = "make_code" /\ status = "run"
    /\ Install([gen(State, "make_code_file", "", 0)
                   EXCEPT !.status = "returned", !.exit_code = EXIT_SUCCESS])
    /\ pc' = "done"
    /\ UNCHANGED scanner_vars
    /\ UNCHANGED << input, nops, opened, preTable, outerSnap, inner, last >>

Next ==
    \/ MainInit
    \/ MainGetToken
    \/ SourceHeader
    \/ SourceFuncdef
    \/ SourceBody
    \/ MainFinish

----------------------------------------------------------------------------
(* The programs given to the compiler, as the scanner's token streams *)

SOURCE_P == << Tok("TOKEN_SOURCE"), Id("P") >>
BEGIN == << Tok("TOKEN_BEGIN") >>
END == << Tok("TOKEN_END") >>
RELAX == << Tok("TOKEN_RELAX") >>
SEMI == << Tok("TOKEN_SEMICOLON") >>
GETS == << Tok("TOKEN_GETS") >>
COMMA == << Tok("TOKEN_COMMA") >>
LPAR == << Tok("TOKEN_OPEN_PARENTHESIS") >>
RPAR == << Tok("TOKEN_CLOSE_PARENTHESIS") >>

\* the scalar types and the literal of each used in the programs
ScalarTypes == {"TOKEN_BOOLEAN", "TOKEN_INTEGER"}
Literals == { Num(1), Tok("TOKEN_TRUE") }
LiteralType(lit) ==
    IF lit.type = "TOKEN_NUMBER" THEN "TOKEN_INTEGER" ELSE "TOKEN_BOOLEAN"

SeqsUpTo(S, n) == UNION { [1 .. k -> S] : k \in 0 .. n }

\* t1 a, t2 b, ... and e1, e2, ...
ParamNames == << "x", "y", "b" >>
RECURSIVE ParamToks(_, _)
ParamToks(ps, i) ==
    IF i > Len(ps) THEN << >>
    ELSE (IF i > 1 THEN COMMA ELSE << >>)
         \o << Tok(ps[i]), Id(ParamNames[((i - 1) % 3) + 1]) >>
         \o ParamToks(ps, i + 1)

RECURSIVE ArgToks(_, _)
ArgToks(as, i) ==
    IF i > Len(as) THEN << >>
    ELSE (IF i > 1 THEN COMMA ELSE << >>) \o << as[i] >> \o ArgToks(as, i + 1)

\* source P begin <body> end
MainProg(body) == SOURCE_P \o BEGIN \o body \o END

\* function <name> ( <params> ) begin <body> end
FuncDef(name, ps, body) ==
    << Tok("TOKEN_FUNCTION"), Id(name) >> \o LPAR \o ParamToks(ps, 1) \o RPAR
    \o BEGIN \o body \o END

\* call <name> ( <args> )
CallStmt(name, as) ==
    << Tok("TOKEN_CALL"), Id(name) >> \o LPAR \o ArgToks(as, 1) \o RPAR

\* source P begin T b; b := lit end
AssignProg(T, lit) ==
    MainProg(<< Tok(T), Id("b") >> \o SEMI \o << Id("b") >> \o GETS \o << lit >>)

\* source P function f(ps) begin call f(as) end begin relax end
SelfCallProg(ps, as) ==
    SOURCE_P \o FuncDef("f", ps, CallStmt("f", as)) \o BEGIN \o RELAX \o END

\* source P function f(ps) begin relax end begin call f(as) end
MainCallProg(ps, as) ==
    SOURCE_P \o FuncDef("f", ps, RELAX) \o BEGIN \o CallStmt("f", as) \o END

\* source P function f(ps) to integer begin leave f(as) end begin relax end
FactorCallProg(ps, as) ==
    SOURCE_P
    \o << Tok("TOKEN_FUNCTION"), Id("f") >> \o LPAR \o ParamToks(ps, 1) \o RPAR
    \o << Tok("TOKEN_TO"), Tok("TOKEN_INTEGER") >>
    \o BEGIN \o << Tok("TOKEN_LEAVE"), Id("f") >> \o LPAR \o ArgToks(as, 1)
    \o RPAR \o END
    \o BEGIN \o RELAX \o END

ParamLists == SeqsUpTo(ScalarTypes, MaxParams)
ArgLists == SeqsUpTo(Literals, MaxArgs)

\* the types of an argument list
ArgTypes(as) == [i \in 1 .. Len(as) |-> LiteralType(as[i])]

AssignPrograms == { AssignProg(T, lit) : T \in ScalarTypes, lit \in Literals }
IllTypedAssignPrograms ==
    UNION { { AssignProg(T, lit) : lit \in { l \in Literals : LiteralType(l) # T } } :
            T \in ScalarTypes }

CallPrograms ==
    UNION { { SelfCallProg(ps, as), MainCallProg(ps, as), FactorCallProg(ps, as) } :
            ps \in ParamLists, as \in ArgLists }

\* programs that use a name no definition introduces: as the target of an
\* assignment, as the callee of a call, in a factor
UnknownIdPrograms ==
    { MainProg(<< Id("x") >> \o GETS \o << Num(1) >>),
      MainProg(CallStmt("g", << >>)),
      MainProg(<< Tok("TOKEN_INTEGER"), Id("x") >> \o SEMI
               \o << Id("x") >> \o GETS \o << Id("y") >>) }

\* programs with a syntax error at each place the parser calls abort_compile
SyntaxErrorPrograms ==
    { << >>,
      << Tok("TOKEN_SOURCE") >> \o BEGIN \o RELAX \o END,
      MainProg(<< >>),
      SOURCE_P \o << Tok("TOKEN_FUNCTION"), Id("f") >> \o LPAR
          \o << Tok("TOKEN_INTEGER"), Id("x") >> \o COMMA \o << Id("y") >> \o RPAR
          \o BEGIN \o RELAX \o END \o BEGIN \o RELAX \o END,
      MainProg(<< Tok("TOKEN_INTEGER"), Id("x") >> \o SEMI
               \o << Id("x") >> \o GETS),
      MainProg(<< Tok("TOKEN_PUT") >>),
      MainProg(<< Tok("TOKEN_INTEGER"), Id("x") >> \o SEMI
               \o << Id("x") >> \o GETS \o LPAR) }

\* well-formed programs that exercise the remaining statements
OtherPrograms ==
    { MainProg(RELAX),
      MainProg(<< Tok("TOKEN_INTEGER"), Id("x") >> \o COMMA \o << Id("y") >> \o SEMI
               \o << Id("x") >> \o GETS
               \o << Num(2), Tok("TOKEN_PLUS"), Num(3), Tok("TOKEN_MULTIPLY"), Num(4) >>
               \o SEMI
               \o << Tok("TOKEN_WHILE"), Id("x"), Tok("TOKEN_LESS_THAN"), Num(1),
                     Tok("TOKEN_DO") >> \o RELAX \o END
               \o SEMI
               \o << Tok("TOKEN_IF"), Tok("TOKEN_NOT"), Tok("TOKEN_FALSE"),
                     Tok("TOKEN_THEN") >> \o RELAX
               \o << Tok("TOKEN_ELSIF"), Tok("TOKEN_TRUE"), Tok("TOKEN_THEN") >>
               \o RELAX \o << Tok("TOKEN_ELSE") >> \o RELAX \o END
               \o SEMI
               \o << Tok("TOKEN_PUT"), Str("x="), Tok("TOKEN_CONCATENATE"),
                     Tok("TOKEN_MINUS"), Id("x") >>
               \o SEMI \o << Tok("TOKEN_GET"), Id("y") >>),
      MainProg(<< Tok("TOKEN_INTEGER"), Tok("TOKEN_ARRAY"), Id("x") >> \o SEMI
               \o << Id("x") >> \o GETS \o << Tok("TOKEN_ARRAY"), Num(1) >> \o SEMI
               \o << Id("x"), Tok("TOKEN_OPEN_BRACKET"), Num(0),
                     Tok("TOKEN_CLOSE_BRACKET") >> \o GETS
               \o << Id("x"), Tok("TOKEN_OPEN_BRACKET"), Num(0),
                     Tok("TOKEN_CLOSE_BRACKET") >>),
      SOURCE_P \o FuncDef("f", << >>, RELAX) \o FuncDef("g", << >>, RELAX)
          \o BEGIN \o RELAX \o END,
      SOURCE_P \o FuncDef("f", << >>, RELAX)
          \o BEGIN \o << Tok("TOKEN_INTEGER"), Id("x") >> \o SEMI \o RELAX \o END,
      SOURCE_P \o FuncDef("f", << >>,
                          << Tok("TOKEN_INTEGER"), Id("f") >> \o SEMI \o RELAX)
          \o BEGIN \o RELAX \o END }

\* number of `to type` clauses written after a parameter list
MaxTo == 2

\* source P function f() to T1 to T2 ... begin relax end begin relax end
ToClauseProg(ts) ==
    SOURCE_P \o << Tok("TOKEN_FUNCTION"), Id("f") >> \o LPAR \o RPAR
    \o [i \in 1 .. 2 * Len(ts) |->
           IF i % 2 = 1 THEN Tok("TOKEN_TO") ELSE Tok(ts[i \div 2])]
    \o BEGIN \o RELAX \o END \o BEGIN \o RELAX \o END

ToLists == SeqsUpTo(ScalarTypes, MaxTo)
ToClausePrograms == { ToClauseProg(ts) : ts \in ToLists }

\* integer expressions as trees: a number, the negation of a tree, two trees
\* joined by an operator
NumT(v) == [k |-> "num", v |-> v]
NegT(x) == [k |-> "neg", x |-> x]
BinT(op, l, r) == [k |-> "bin", op |-> op, l |-> l, r |-> r]

AddOps == {"TOKEN_PLUS", "TOKEN_MINUS"}
MulOps == {"TOKEN_MULTIPLY", "TOKEN_DIVIDE", "TOKEN_REMAINDER"}

\* the level of the grammar a tree is written at: 1 simple, 2 term, 3 factor
Level(t) ==
    IF t.k = "num" THEN 3
    ELSE IF t.k = "bin" /\ t.op \in MulOps THEN 2
    ELSE 1

\* the tokens of a tree where the grammar asks for the given level, with
\* parentheses only where the tree is of a lower level
RECURSIVE ExprToks(_, _)
ExprToks(t, level) ==
    IF Level(t) < level
    THEN LPAR \o ExprToks(t, 1) \o RPAR
    ELSE IF t.k = "num" THEN << Num(t.v) >>
    ELSE IF t.k = "neg" THEN << Tok("TOKEN_MINUS") >> \o ExprToks(t.x, 2)
    ELSE IF t.op \in MulOps
    THEN ExprToks(t.l, 2) \o << Tok(t.op) >> \o ExprToks(t.r, 3)
    ELSE ExprToks(t.l, 1) \o << Tok(t.op) >> \o ExprToks(t.r, 2)

\* 2 + 3 * 4
TwoPlusThreeTimesFour ==
    BinT("TOKEN_PLUS", NumT(2), BinT("TOKEN_MULTIPLY", NumT(3), NumT(4)))

\* trees of up to two operators over 7, 3 and 2, bare and negated; none of
\* them divides by zero
ExprTrees ==
    LET ops == AddOps \cup MulOps
        left == { BinT(o1, BinT(o2, NumT(7), NumT(3)), NumT(2)) :
                  o1 \in ops, o2 \in ops }
        right == { BinT(o1, NumT(7), BinT(o2, NumT(3), NumT(2))) :
                   o1 \in ops, o2 \in ops }
        negs == { BinT(o1, NegT(BinT(o2, NumT(7), NumT(3))), NumT(2)) :
                  o1 \in ops, o2 \in ops }
    IN  left \cup right \cup negs \cup { NegT(t) : t \in right }
        \cup { NumT(7), NegT(NumT(7)), NegT(NegT(NumT(3))),
               TwoPlusThreeTimesFour }

\* source P begin integer x; x := <expression> end
ExprProg(t) ==
    MainProg(<< Tok("TOKEN_INTEGER"), Id("x") >> \o SEMI
             \o << Id("x") >> \o GETS \o ExprToks(t, 1))
ExprPrograms == { ExprProg(t) : t \in ExprTrees }

\* source P begin while true do relax end end
WhileProg ==
    MainProg(<< Tok("TOKEN_WHILE"), Tok("TOKEN_TRUE"), Tok("TOKEN_DO") >>
             \o RELAX \o END)

\* source P begin integer x, y, ...; x := <the last variable> end
LocalNames == << "x", "y", "z" >>
LocalCounts == 1 .. Len(LocalNames)
LocalsProg(k) ==
    MainProg(<< Tok("TOKEN_INTEGER"), Id(LocalNames[1]) >>
             \o [i \in 1 .. 2 * (k - 1) |->
                    IF i % 2 = 1 THEN COMMA[1] ELSE Id(LocalNames[1 + i \div 2])]
             \o SEMI
             \o << Id(LocalNames[1]) >> \o GETS \o << Id(LocalNames[k]) >>)
LocalsPrograms == { LocalsProg(k) : k \in LocalCounts }

\* source P begin integer x, ...; v := 1; w := v end with k variables, v the
\* i-th and w the j-th of them
SlotProg(k, i, j) ==
    MainProg(<< Tok("TOKEN_INTEGER"), Id(LocalNames[1]) >>
             \o [n \in 1 .. 2 * (k - 1) |->
                    IF n % 2 = 1 THEN COMMA[1] ELSE Id(LocalNames[1 + n \div 2])]
             \o SEMI
             \o << Id(LocalNames[i]) >> \o GETS \o << Num(1) >> \o SEMI
             \o << Id(LocalNames[j]) >> \o GETS \o << Id(LocalNames[i]) >>)
SlotChoices ==
    { c \in LocalCounts \X LocalCounts \X LocalCounts :
        c[2] <= c[1] /\ c[3] <= c[1] }
SlotPrograms == { SlotProg(c[1], c[2], c[3]) : c \in SlotChoices }

\* source P function f(ps) begin end: the body has no statement, so the
\* compilation stops inside f, with f's scope still open
OpenFuncProg(ps) == SOURCE_P \o FuncDef("f", ps, << >>)
DeclaredLists == SeqsUpTo(ScalarTypes, Len(ParamNames))
\* source P function f() to T begin end
OpenFuncToProg(T) ==
    SOURCE_P \o << Tok("TOKEN_FUNCTION"), Id("f") >> \o LPAR \o RPAR
    \o << Tok("TOKEN_TO"), Tok(T) >> \o BEGIN \o END
OpenFuncPrograms ==
    { OpenFuncProg(ps) : ps \in DeclaredLists }
    \cup { OpenFuncToProg(T) : T \in ScalarTypes }

\* source P begin integer array x; relax end
ArrayDeclProg ==
    MainProg(<< Tok("TOKEN_INTEGER"), Tok("TOKEN_ARRAY"), Id("x") >> \o SEMI
             \o RELAX)

\* source P begin integer array x; x := array 1 end
ArrayAllocProg ==
    MainProg(<< Tok("TOKEN_INTEGER"), Tok("TOKEN_ARRAY"), Id("x") >> \o SEMI
             \o << Id("x") >> \o GETS \o << Tok("TOKEN_ARRAY"), Num(1) >>)

Programs ==
    AssignPrograms \cup CallPrograms \cup UnknownIdPrograms
    \cup SyntaxErrorPrograms \cup OtherPrograms \cup ToClausePrograms
    \cup ExprPrograms \cup {WhileProg} \cup LocalsPrograms
    \cup OpenFuncPrograms \cup {ArrayDeclProg, ArrayAllocProg}
    \cup SlotPrograms

\* what a read through a pointer that was never assigned can give: a fault,
\* or the bytes of some property record
WildOutcomes ==
    { [segv |-> TRUE, prop |-> WILD] }
    \cup { [segv |-> FALSE, prop |-> p] :
           p \in { idprop(TYPE_INTEGER, 1, 0, << >>),
                   idprop(TYPE_ARRAY, 1, 0, << >>),
                   idprop(TYPE_CALLABLE, 1, 0, << >>) } }

Init ==
    /\ input \in Programs
    /\ wild \in WildOutcomes
    /\ Starts([Globals0 EXCEPT !.wild = wild])
    /\ ScannerClosed
    /\ pc = "init"
    /\ nops = 0
    /\ opened = FALSE
    /\ preTable = NULL
    /\ outerSnap = NULL
    /\ inner = << >>
    /\ last = NoCall

Spec == Init /\ [][Next]_vars

----------------------------------------------------------------------------
(* Properties of whole compilations *)

\* the run of main() is over: exit(), a signal, or the return from main
Finished == status # "run"

\* the whole source was accepted: main reached its return
Accepted == pc = "done"

\* C1: every compilation that hits an error ends with a non-zero exit code,
\* and exit code 0 is produced only when the whole source was accepted.
C1_ErrorsExitNonZero ==
    /\ err # "none" => exit_code # 0
    /\ (Finished /\ exit_code = 0) => Accepted

\* the subroutines whose definitions have been parsed to their end
DefinedCallables ==
    { code[i].a : i \in { j \in 1 .. Len(code) :
                            /\ code[j].op = "close_subroutine_codegen"
                            /\ code[j].a # "main" } }

\* C5: between and after the function definitions the current symbol table
\* is a valid, unreleased global table that holds every callable defined so
\* far.
C5_GlobalScopeLives ==
    (pc = "funcdefs" /\ status = "run") =>
        /\ table # NULL
        /\ ~heap[table].released
        /\ \A id \in DefinedCallables : HasKey(heap[table], id)

\* C8: an assignment whose expression type differs from the declared type
\* of its target is rejected: the program is not accepted and no class file
\* is made for it.
C8_IllTypedAssignRejected ==
    input \in IllTypedAssignPrograms =>
        /\ ~Accepted
        /\ \A i \in 1 .. Len(code) : code[i].op # "make_code_file"

\* C9: a call of f, as a statement or in a factor, is accepted if and only
\* if the types of its arguments are, one by one, the declared parameter
\* types of f.
C9_CallSitesChecked ==
    \A ps \in ParamLists, as \in ArgLists :
        (/\ Finished
         /\ input \in { SelfCallProg(ps, as), MainCallProg(ps, as),
                        FactorCallProg(ps, as) })
        => (Accepted <=> ArgTypes(as) = ps)

\* C10: the use of a name that find does not resolve, as an assignment
\* target, in a call or in a factor, ends the compilation with the unknown
\* identifier error, before the name's property record is read.
C10_UnknownIdentifierFatal ==
    (input \in UnknownIdPrograms /\ Finished) =>
        /\ status = "exit"
        /\ err = "ERR_UNKNOWN_IDENTIFIER"

----------------------------------------------------------------------------
(* scanner.c: characters *)

\* the printable ASCII characters, from space (32) to tilde (126); GRAVE
\* stands for the grave accent (96)
Printable ==
    << " ", "!", "\"", "#", "$", "%", "&", "'", "(", ")", "*", "+", ",",
       "-", ".", "/", "0", "1", "2", "3", "4", "5", "6", "7", "8", "9",
       ":", ";", "<", "=", ">", "?", "@", "A", "B", "C", "D", "E", "F",
       "G", "H", "I", "J", "K", "L", "M", "N", "O", "P", "Q", "R", "S",
       "T", "U", "V", "W", "X", "Y", "Z", "[", "\\", "]", "^", "_", "GRAVE",
       "a", "b", "c", "d", "e", "f", "g", "h", "i", "j", "k", "l", "m",
       "n", "o", "p", "q", "r", "s", "t", "u", "v", "w", "x", "y", "z",
       "{", "|", "}", "~" >>

\* what fgetc returns at the end of the file, and the character '\0'
EOF == "EOF"
NUL == "NUL"

\* the int value of a character; BEL and 0xC8 stand for a control character
\* and for a byte above 127
ascii(c) ==
    CASE c = EOF -> -1
      [] c = NUL -> 0
      [] c = "BEL" -> 7
      [] c = "\t" -> 9
      [] c = "\n" -> 10
      [] c = "\r" -> 13
      [] c = "0xC8" -> 200
      [] OTHER -> 31 + (CHOOSE i \in 1 .. Len(Printable) : Printable[i] = c)

\* <ctype.h> in the C locale
isascii(c) == ascii(c) \in 0 .. 127
isspace(c) == ascii(c) \in (9 .. 13) \cup {32}
isdigit(c) == ascii(c) \in 48 .. 57
isalpha(c) == ascii(c) \in (65 .. 90) \cup (97 .. 122)
isprint(c) == ascii(c) \in 32 .. 126

----------------------------------------------------------------------------
(* scanner.c: the source reader *)

\* the scanner's state and the token it writes; overrun tells whether the
\* call under way has written past the end of a block
ScanState ==
    [src_file |-> src_file, ch |-> ch, column_number |-> column_number,
     last_read |-> last_read, position |-> position, junk |-> junk,
     token |-> token, status |-> status, exit_code |-> exit_code, err |-> err,
     overrun |-> FALSE]

ScanInstall(sc) ==
    /\ src_file' = sc.src_file
    /\ ch' = sc.ch
    /\ column_number' = sc.column_number
    /\ last_read' = sc.last_read
    /\ position' = sc.position
    /\ junk' = sc.junk
    /\ token' = sc.token
    /\ status' = sc.status
    /\ exit_code' = sc.exit_code
    /\ err' = sc.err

\* ch = fgetc(src_file)
fgetc(sc) ==
    IF sc.src_file.offset < Len(sc.src_file.bytes)
    THEN [sc EXCEPT !.ch = sc.src_file.bytes[sc.src_file.offset + 1],
                    !.src_file.offset = @ + 1]
    ELSE [sc EXCEPT !.ch = EOF]

\* leprintf: reports the message at the global position and ends the process
leprintf(sc, msg) ==
    IF sc.status # "run" THEN sc
    ELSE [sc EXCEPT !.status = "exit", !.exit_code = EXIT_FAILURE, !.err = msg]

\* position.col = col
set_col(sc, col) ==
    IF sc.status # "run" THEN sc ELSE [sc EXCEPT !.position.col = col]

\* next_char
next_char(sc) ==
    IF sc.status # "run" THEN sc
    ELSE Let(set_col(sc, sc.column_number), LAMBDA s1 :
         IF s1.ch = EOF THEN s1
         ELSE Let(fgetc(s1), LAMBDA s2 :
         IF s2.ch = EOF THEN s2
         ELSE Let(IF s2.last_read = "\n"
                  THEN [s2 EXCEPT !.column_number = 0,
                                  !.position.line = @ + 1,
                                  !.last_read = NUL]
                  ELSE s2, LAMBDA s3 :
         Let([s3 EXCEPT !.column_number = @ + 1], LAMBDA s4 :
         IF s4.ch = "\n" THEN [s4 EXCEPT !.last_read = "\n"] ELSE s4))))

\* init_scanner(in_file)
init_scanner(sc, in_file) ==
    next_char([sc EXCEPT !.src_file = in_file,
                         !.position = [line |-> 1, col |-> 0],
                         !.column_number = 0])

----------------------------------------------------------------------------
(* scanner.c: numbers *)

\* number_loop with the overflow test also true when number is INT_MAX / 10
\* and the next digit still fits
RECURSIVE number_loop_early(_, _, _)
number_loop_early(sc, number, k) ==
    IF sc.status # "run" \/ ~isdigit(sc.ch) THEN [s |-> sc, number |-> number]
    ELSE Let(next_char(sc), LAMBDA s1 :
         IF ~isdigit(s1.ch) THEN [s |-> s1, number |-> number]
         ELSE Let(ascii(s1.ch) - ascii("0"), LAMBDA newnum :
              IF INT_MAX \div 10 <= number
              THEN [s |-> leprintf(set_col(s1, k), "number too large"),
                    number |-> number]
              ELSE number_loop_early(s1, 10 * number + newnum, k)))

\* process_number: while (isdigit(ch)); gives the state and number
RECURSIVE number_loop(_, _, _)
number_loop(sc, number, k) ==
    IF sc.status # "run" \/ ~isdigit(sc.ch) THEN [s |-> sc, number |-> number]
    ELSE Let(next_char(sc), LAMBDA s1 :
         IF ~isdigit(s1.ch) THEN [s |-> s1, number |-> number]
         ELSE Let(ascii(s1.ch) - ascii("0"), LAMBDA newnum :
              IF \/ INT_MAX \div 10 < number
                 \/ (INT_MAX \div 10 = number /\ newnum > INT_MAX % 10)
              THEN [s |-> leprintf(set_col(s1, k), "number too large"),
                    number |-> number]
              ELSE number_loop(s1, 10 * number + newnum, k)))

\* process_number
process_number(sc) ==
    IF sc.status # "run" THEN sc
    ELSE Let(number_loop(sc, ascii(sc.ch) - ascii("0"), sc.column_number),
             LAMBDA r :
         IF r.s.status # "run" THEN r.s
         ELSE set_col([r.s EXCEPT !.token.type = "TOKEN_NUMBER",
                                  !.token.value = r.number],
                      sc.column_number))


----------------------------------------------------------------------------
(* scanner.c: words *)

\* the reserved words; a word is the sequence of its characters
reserved ==
    << [word |-> << "a", "n", "d" >>,
        type |-> "TOKEN_AND"],
       [word |-> << "a", "r", "r", "a", "y" >>,
        type |-> "TOKEN_ARRAY"],
       [word |-> << "b", "e", "g", "i", "n" >>,
        type |-> "TOKEN_BEGIN"],
       [word |-> << "b", "o", "o", "l", "e", "a", "n" >>,
        type |-> "TOKEN_BOOLEAN"],
       [word |-> << "c", "a", "l", "l" >>,
        type |-> "TOKEN_CALL"],
       [word |-> << "d", "o" >>,
        type |-> "TOKEN_DO"],
       [word |-> << "e", "l", "s", "e" >>,
        type |-> "TOKEN_ELSE"],
       [word |-> << "e", "l", "s", "i", "f" >>,
        type |-> "TOKEN_ELSIF"],
       [word |-> << "e", "n", "d" >>,
        type |-> "TOKEN_END"],
       [word |-> << "f", "a", "l", "s", "e" >>,
        type |-> "TOKEN_FALSE"],
       [word |-> << "f", "u", "n", "c", "t", "i", "o", "n" >>,
        type |-> "TOKEN_FUNCTION"],
       [word |-> << "g", "e", "t" >>,
        type |-> "TOKEN_GET"],
       [word |-> << "i", "f" >>,
        type |-> "TOKEN_IF"],
       [word |-> << "i", "n", "t", "e", "g", "e", "r" >>,
        type |-> "TOKEN_INTEGER"],
       [word |-> << "l", "e", "a", "v", "e" >>,
        type |-> "TOKEN_LEAVE"],
       [word |-> << "n", "o", "t" >>,
        type |-> "TOKEN_NOT"],
       [word |-> << "o", "r" >>,
        type |-> "TOKEN_OR"],
       [word |-> << "p", "u", "t" >>,
        type |-> "TOKEN_PUT"],
       [word |-> << "r", "e", "l", "a", "x" >>,
        type |-> "TOKEN_RELAX"],
       [word |-> << "r", "e", "m" >>,
        type |-> "TOKEN_REMAINDER"],
       [word |-> << "s", "o", "u", "r", "c", "e" >>,
        type |-> "TOKEN_SOURCE"],
       [word |-> << "t", "h", "e", "n" >>,
        type |-> "TOKEN_THEN"],
       [word |-> << "t", "o" >>,
        type |-> "TOKEN_TO"],
       [word |-> << "t", "r", "u", "e" >>,
        type |-> "TOKEN_TRUE"],
       [word |-> << "w", "h", "i", "l", "e" >>,
        type |-> "TOKEN_WHILE"] >>

NUM_RESERVED_WORDS == Len(reserved)

\* token.h: the longest identifier
MAX_ID_LENGTH == 72

\* #define MAX_INITIAL_STRING_LEN (1024)
MAX_INITIAL_STRING_LEN == 1024

\* <string.h> strcmp: the sign of the first difference, the end of a string
\* being the character '\0'
RECURSIVE strcmp_from(_, _, _)
strcmp_from(s1, s2, i) ==
    Let(IF i <= Len(s1) THEN ascii(s1[i]) ELSE 0, LAMBDA c1 :
    Let(IF i <= Len(s2) THEN ascii(s2[i]) ELSE 0, LAMBDA c2 :
    IF c1 < c2 THEN -1
    ELSE IF c1 > c2 THEN 1
    ELSE IF c1 = 0 THEN 0
    ELSE strcmp_from(s1, s2, i + 1)))

strcmp(s1, s2) == strcmp_from(s1, s2, 1)

\* process_word: one pass of while (isalpha(ch) || ch == '_' || isdigit(ch)),
\* nothing once the loop is left; r holds the state, lexeme and i
word_step(r, k) ==
    IF \/ r.s.status # "run"
       \/ ~(isalpha(r.s.ch) \/ r.s.ch = "_" \/ isdigit(r.s.ch))
    THEN r
    ELSE IF r.i + 1 > MAX_ID_LENGTH
    THEN [r EXCEPT !.s = leprintf(set_col(r.s, k), "identifier too long"),
                   !.i = r.i + 1]
    ELSE [s |-> next_char(r.s), lexeme |-> Append(r.lexeme, r.s.ch),
          i |-> r.i + 1]

\* n passes of the loop, one half after the other; the test of r1.i has the
\* first half computed before the second half starts
RECURSIVE word_steps(_, _, _)
word_steps(r, k, n) ==
    IF n = 0 THEN r
    ELSE IF n = 1 THEN word_step(r, k)
    ELSE Let(word_steps(r, k, n \div 2), LAMBDA r1 :
         IF r1.i >= 0 THEN word_steps(r1, k, n - (n \div 2)) ELSE r1)

\* process_word: the while loop, which the length test leaves after at most
\* MAX_ID_LENGTH + 1 passes; gives the state and lexeme
word_loop(sc, lexeme, i, k) ==
    word_steps([s |-> sc, lexeme |-> lexeme, i |-> i], k, MAX_ID_LENGTH + 1)

\* binary_search with the loop going on only while low < high
RECURSIVE binary_search_strict(_, _, _)
binary_search_strict(lexeme, low, high) ==
    Let((low + high) \div 2, LAMBDA mid :
    Let(strcmp(lexeme, reserved[mid + 1].word), LAMBDA cmp :
    Let(IF cmp < 0 THEN mid - 1 ELSE high, LAMBDA high1 :
    Let(IF cmp > 0 THEN mid + 1 ELSE low, LAMBDA low1 :
    IF cmp # 0 /\ low1 < high1
    THEN binary_search_strict(lexeme, low1, high1)
    ELSE mid))))

\* process_word: the do ... while of the binary search; gives mid
RECURSIVE binary_search(_, _, _)
binary_search(lexeme, low, high) ==
    Let((low + high) \div 2, LAMBDA mid :
    Let(strcmp(lexeme, reserved[mid + 1].word), LAMBDA cmp :
    Let(IF cmp < 0 THEN mid - 1 ELSE high, LAMBDA high1 :
    Let(IF cmp > 0 THEN mid + 1 ELSE low, LAMBDA low1 :
    IF cmp # 0 /\ low1 <= high1
    THEN binary_search(lexeme, low1, high1)
    ELSE mid))))

\* process_word
process_word(sc) ==
    IF sc.status # "run" THEN sc
    ELSE Let(word_loop(sc, << >>, 0, sc.column_number), LAMBDA r :
         IF r.s.status # "run" THEN r.s
         ELSE Let(binary_search(r.lexeme, 0, NUM_RESERVED_WORDS - 1), LAMBDA mid :
              IF strcmp(r.lexeme, reserved[mid + 1].word) = 0
              THEN set_col([r.s EXCEPT !.token.type = reserved[mid + 1].type],
                           sc.column_number)
              ELSE set_col([r.s EXCEPT !.token.type = "TOKEN_ID",
                                       !.token.lexeme = r.lexeme],
                           sc.column_number)))

----------------------------------------------------------------------------
(* scanner.c: strings *)

\* process_string: if (ch == '\\') { ... }; gives the state, line and add
string_escape(sc, line) ==
    Let(next_char(sc), LAMBDA s1 :
    IF s1.ch \notin {"n", "t", "\"", "\\"}
    THEN [s |-> leprintf(set_col(s1, s1.column_number - 1),
                         "illegal escape code in string"),
          line |-> Append(line, "\\"), add |-> "\\"]
    ELSE [s |-> s1, line |-> Append(line, "\\"), add |-> s1.ch])

\* process_string: one pass of while (ch != '"'), nothing once the loop is
\* left; r holds the state, line, count and nstring, and over, which tells
\* whether a strncat has stored a byte or the terminator past the nstring
\* bytes of the block
string_step(r, k) ==
    IF r.s.status # "run" \/ r.s.ch = "\"" THEN r
    ELSE Let(IF r.s.ch = "\\" THEN string_escape(r.s, r.line)
             ELSE [s |-> r.s, line |-> r.line, add |-> r.s.ch], LAMBDA e :
         Let(IF e.s.status = "run" THEN Append(e.line, e.add) ELSE e.line,
             LAMBDA line1 :
         Let(next_char(e.s), LAMBDA s2 :
         Let(IF s2.ch = EOF
             THEN leprintf(set_col(s2, k - 1), "string not closed")
             ELSE s2, LAMBDA s3 :
         Let(IF ~isascii(s3.ch) \/ s3.ch = "\n" \/ ~isprint(s3.ch)
             THEN leprintf(set_col(s3, s3.position.col + 1),
                           "non-printable character in string")
             ELSE s3, LAMBDA s4 :
         Let(s4.status = "run" /\ r.count + 1 > 1023, LAMBDA grow :
         [s |-> s4,
          line |-> line1,
          count |-> IF grow THEN 0 ELSE r.count + 1,
          nstring |-> IF grow THEN r.nstring * 2 ELSE r.nstring,
          over |-> r.over \/ Len(line1) + 1 > r.nstring]))))))

\* n passes of the loop, one half after the other; the test of r1.count has
\* the first half computed before the second half starts
RECURSIVE string_steps(_, _, _)
string_steps(r, k, n) ==
    IF n = 0 THEN r
    ELSE IF n = 1 THEN string_step(r, k)
    ELSE Let(string_steps(r, k, n \div 2), LAMBDA r1 :
         IF r1.count >= 0 THEN string_steps(r1, k, n - (n \div 2)) ELSE r1)

\* process_string: the while loop, which is left after at most as many
\* passes as the file has characters; gives the state, the line and over
string_loop(sc, line, k) ==
    string_steps([s |-> sc, line |-> line, count |-> 1,
                  nstring |-> MAX_INITIAL_STRING_LEN, over |-> FALSE],
                 k, Len(sc.src_file.bytes) + 1)

\* process_string; line = malloc(...) holds what the block held before
process_string(sc) ==
    IF sc.status # "run" THEN sc
    ELSE Let(string_loop(sc, sc.junk, sc.column_number), LAMBDA r :
         IF r.s.status # "run" THEN [r.s EXCEPT !.overrun = r.over]
         ELSE set_col(next_char([r.s EXCEPT !.token.type = "TOKEN_STRING",
                                            !.token.string = r.line,
                                            !.overrun = r.over]),
                      sc.column_number - 1))

----------------------------------------------------------------------------
(* scanner.c: comments *)

RECURSIVE skip_comment(_), comment_loop(_, _, _)

\* skip_comment
skip_comment(sc) ==
    IF sc.status # "run" THEN sc
    ELSE Let(next_char(sc), LAMBDA s1 :
         Let(IF s1.ch = EOF
             THEN leprintf(set_col(s1, sc.column_number), "comment not closed")
             ELSE s1, LAMBDA s2 :
         next_char(comment_loop(s2, sc.column_number, sc.position.line))))

\* skip_comment: while (ch != '}')
comment_loop(sc, temp1, temp2) ==
    IF sc.status # "run" \/ sc.ch = "}" THEN sc
    ELSE Let(IF sc.ch = "{" THEN skip_comment(sc) ELSE sc, LAMBDA s1 :
         IF s1.status # "run" \/ s1.ch = "}" THEN s1
         ELSE Let(IF s1.ch = EOF
                  THEN leprintf([s1 EXCEPT !.position =
                                     [line |-> temp2, col |-> temp1]],
                                "comment not closed")
                  ELSE s1, LAMBDA s2 :
              comment_loop(next_char(s2), temp1, temp2)))


----------------------------------------------------------------------------
(* scanner.c: get_token *)

\* get_token: while (isspace(ch)) next_char()
RECURSIVE skip_space(_)
skip_space(sc) ==
    IF sc.status # "run" \/ ~isspace(sc.ch) THEN sc
    ELSE skip_space(next_char(sc))

\* token_start with the test for non-ASCII characters not excluding EOF
token_start_no_eof_test(sc) ==
    Let(skip_space(sc), LAMBDA s1 :
    Let(IF s1.ch = "\n" THEN next_char(s1) ELSE s1, LAMBDA s2 :
    Let(IF ~isascii(s2.ch)
        THEN leprintf(set_col(s2, s2.column_number), "illegal character")
        ELSE s2, LAMBDA s3 :
    set_col(s3, s3.column_number))))

\* get_token, from its start to "remember token start"
token_start(sc) ==
    Let(skip_space(sc), LAMBDA s1 :
    Let(IF s1.ch = "\n" THEN next_char(s1) ELSE s1, LAMBDA s2 :
    Let(IF ~isascii(s2.ch) /\ s2.ch # EOF
        THEN leprintf(set_col(s2, s2.column_number), "illegal character")
        ELSE s2, LAMBDA s3 :
    set_col(s3, s3.column_number))))

\* get_token: the cases of the switch that set the type and call next_char
one_char_token(c) ==
    CASE c = "=" -> "TOKEN_EQUAL"
      [] c = "-" -> "TOKEN_MINUS"
      [] c = "+" -> "TOKEN_PLUS"
      [] c = "/" -> "TOKEN_DIVIDE"
      [] c = "*" -> "TOKEN_MULTIPLY"
      [] c = "]" -> "TOKEN_CLOSE_BRACKET"
      [] c = ")" -> "TOKEN_CLOSE_PARENTHESIS"
      [] c = "," -> "TOKEN_COMMA"
      [] c = "." -> "TOKEN_CONCATENATE"
      [] c = "[" -> "TOKEN_OPEN_BRACKET"
      [] c = "(" -> "TOKEN_OPEN_PARENTHESIS"
      [] c = ";" -> "TOKEN_SEMICOLON"
      [] OTHER -> "none"

\* token->type = type
set_type(sc, type) ==
    IF sc.status # "run" THEN sc ELSE [sc EXCEPT !.token.type = type]

\* two_char_token without the call of next_char that passes the second
\* character
two_char_token_no_advance(sc, type) ==
    Let(set_type(sc, type), LAMBDA s1 :
    set_col(s1, s1.position.col - 1))

\* get_token: a second character that completes a two-character token
two_char_token(sc, type) ==
    Let(next_char(set_type(sc, type)), LAMBDA s1 :
    set_col(s1, s1.position.col - 1))

\* get_token (scanner.c); the parser's view of it is get_token above
RECURSIVE scan_get_token(_)
scan_get_token(sc) ==
    IF sc.status # "run" THEN sc
    ELSE Let(token_start(sc), LAMBDA s :
    IF s.status # "run" THEN s
    ELSE IF s.ch = EOF THEN set_type(s, "TOKEN_EOF")
    ELSE IF isalpha(s.ch) \/ s.ch = "_" THEN process_word(s)
    ELSE IF isdigit(s.ch) THEN process_number(s)
    ELSE IF s.ch = "\""
    THEN process_string(next_char(set_col(s, s.column_number)))
    ELSE IF s.ch = "{" THEN scan_get_token(skip_comment(s))
    ELSE IF one_char_token(s.ch) # "none"
    THEN next_char(set_type(s, one_char_token(s.ch)))
    ELSE IF s.ch = ">"
    THEN Let(next_char(s), LAMBDA s1 :
         IF s1.ch = "=" THEN two_char_token(s1, "TOKEN_GREATER_EQUAL")
         ELSE set_type(s1, "TOKEN_GREATER_THAN"))
    ELSE IF s.ch = "<"
    THEN Let(next_char(s), LAMBDA s1 :
         IF s1.ch = "=" THEN two_char_token(s1, "TOKEN_LESS_EQUAL")
         ELSE IF s1.ch = ">" THEN two_char_token(s1, "TOKEN_NOT_EQUAL")
         ELSE set_type(s1, "TOKEN_LESS_THAN"))
    ELSE IF s.ch = ":"
    THEN Let(next_char(s), LAMBDA s1 :
         IF s1.ch = "=" THEN two_char_token(s1, "TOKEN_GETS")
         ELSE leprintf(s1, "illegal character"))
    ELSE IF s.ch \in {"}", "!", "#", "$", "%", "&", "@", "|", "~", "GRAVE"}
    THEN leprintf(s, "illegal character")
    ELSE s)

\* where get_token finds the first character of the token it goes on to
\* scan: the state after the white space and the comments before it
RECURSIVE at_lexeme(_)
at_lexeme(sc) ==
    Let(token_start(sc), LAMBDA s :
    IF s.status = "run" /\ s.ch = "{" THEN at_lexeme(skip_comment(s)) ELSE s)


----------------------------------------------------------------------------
(* The scanner run on a source file *)

\* number of get_token calls explored by ScanSpec
MaxCalls == 4

\* nothing observed yet
NoScan ==
    [called |-> FALSE, n |-> 0, type |-> "none", ch |-> NUL, offset |-> 0,
     position |-> [line |-> 0, col |-> 0], start |-> 0, first |-> NUL,
     overrun |-> FALSE]

\* init_scanner(src_file), as main calls it on the file it opened
ScanOpen ==
    /\ pc = "init_scanner" /\ status = "run"
    /\ ScanInstall(init_scanner(ScanState, [bytes |-> input, offset |-> 0]))
    /\ pc' = "get_token"
    /\ UNCHANGED << table, saved_table, curr_offset, heap, return_type,
                    off_counter, counters, src, code, input, wild, nops,
                    opened, preTable, outerSnap, inner, last >>

\* get_token(&token)
ScanGetToken ==
    /\ pc = "get_token" /\ status = "run" /\ nops < MaxCalls
    /\ ScanInstall(scan_get_token(ScanState))
    /\ nops' = nops + 1
    /\ last' = [called |-> TRUE, n |-> nops, type |-> token.type, ch |-> ch,
                offset |-> src_file.offset, position |-> position,
                start |-> at_lexeme(ScanState).src_file.offset,
                first |-> at_lexeme(ScanState).ch,
                overrun |-> scan_get_token(ScanState).overrun]
    /\ UNCHANGED << table, saved_table, curr_offset, heap, return_type,
                    off_counter, counters, src, code, pc, input, wild,
                    opened, preTable, outerSnap, inner >>

ScanNext == ScanOpen \/ ScanGetToken

----------------------------------------------------------------------------
(* The source files given to the scanner *)

QUOTE == << "\"" >>

\* a comment around a text
Cmt(body) == << "{" >> \o body \o << "}" >>

\* words: the reserved words, each also without its last character, with
\* one more character and with a capital first letter, and other identifiers
ReservedWords == { reserved[i].word : i \in 1 .. NUM_RESERVED_WORDS }
Capital(c) == Printable[ascii(c) - 32 - 31]
LongWord(n) == [i \in 1 .. n |-> "a"]
Words ==
    ReservedWords
    \cup { SubSeq(w, 1, Len(w) - 1) : w \in ReservedWords }
    \cup { w \o << c >> : w \in ReservedWords, c \in {"x", "_", "0"} }
    \cup { << Capital(w[1]) >> \o Tail(w) : w \in ReservedWords }
    \cup { << "_" >>, << "z" >>, << "A" >>, << "x", "1" >>, << "_", "9", "Z" >>,
           << "W", "H", "I", "L", "E" >>, LongWord(MAX_ID_LENGTH) }

\* digit strings around the largest int
DigitStrings ==
    { << "0" >>,
      << "7" >>,
      << "0", "0", "7" >>,
      << "4", "2" >>,
      << "2", "1", "4", "7", "4", "8", "3", "6", "4" >>,
      << "2", "1", "4", "7", "4", "8", "3", "6", "3", "9" >>,
      << "2", "1", "4", "7", "4", "8", "3", "6", "4", "6" >>,
      << "2", "1", "4", "7", "4", "8", "3", "6", "4", "7" >>,
      << "2", "1", "4", "7", "4", "8", "3", "6", "4", "8" >>,
      << "2", "1", "4", "7", "4", "8", "3", "6", "4", "9" >>,
      << "2", "1", "4", "7", "4", "8", "3", "6", "5", "0" >>,
      << "2", "1", "4", "7", "4", "8", "3", "6", "5", "7" >>,
      << "2", "1", "4", "7", "4", "8", "3", "7", "0", "0" >>,
      << "3", "0", "0", "0", "0", "0", "0", "0", "0", "0" >>,
      << "2", "1", "4", "7", "4", "8", "3", "6", "4", "7", "0" >>,
      << "9", "9", "9", "9", "9", "9", "9", "9", "9", "9", "9" >>,
      << "0", "0", "0", "0", "0", "0", "0", "0", "0", "0", "2", "1", "4", "7", "4", "8", "3", "6", "4", "7" >>,
      << "0", "0", "0", "0", "0", "0", "0", "0", "0", "0", "2", "1", "4", "7", "4", "8", "3", "6", "4", "8" >>,
      << "1", "0", "0", "0", "0", "0", "0", "0", "0", "0" >>,
      << "9", "9", "9", "9", "9", "9", "9", "9", "9" >>,
      << "4", "2", "9", "4", "9", "6", "7", "2", "9", "6" >>,
      << "4", "2", "9", "4", "9", "6", "7", "2", "9", "7" >> }

\* characters that start no token
NoTokenChars ==
    { "?", "^", "'", "\\", "}", "!", "#", "$", "%", "&", "@", "|", "~",
      "GRAVE", "BEL", "0xC8" }
StrayCharSources ==
    { << c >> : c \in NoTokenChars }
    \cup { << "a", " ", c, " ", "b" >> : c \in {"?", "^", "'"} }

\* well-nested comments
WellNestedComments ==
    { Cmt(<< >>), Cmt(<< "c" >>), Cmt(<< "c", "\n", "d" >>),
      Cmt(Cmt(<< "a" >>)), Cmt(Cmt(Cmt(<< >>))),
      Cmt(Cmt(<< "a" >>) \o Cmt(<< "b" >>)),
      Cmt(Cmt(<< "a" >>) \o << " " >> \o Cmt(<< "b" >>)),
      Cmt(<< "o", " " >> \o Cmt(<< "i" >>) \o << " ", "s" >>) }
CommentedSources == { c \o << "x" >> : c \in WellNestedComments }

\* comments that the end of the file cuts short; the first brace of each
\* text is the outermost one
UnclosedCommentSources ==
    { << "{" >>, << "{", "a" >>, << "{", "{" >>, << "{", "a", "{", "b" >>,
      << "{" >> \o Cmt(<< "a" >>), << "{" >> \o Cmt(<< "a" >>) \o << "\n" >>,
      << "{" >> \o Cmt(<< "a" >>) \o Cmt(<< "b" >>),
      << " ", "{", "\n", "{" >>, << "\n", " ", "{", "a", "\n", "b" >> }

\* string literals: items that are plain characters or escapes
StringItems ==
    { << "a" >>, << " " >>, << "\\", "n" >>, << "\\", "t" >>,
      << "\\", "\"" >>, << "\\", "\\" >> }
StringBodies ==
    { << >> } \cup StringItems
    \cup { i1 \o i2 : i1 \in StringItems, i2 \in StringItems }
EscapedStringSources == { QUOTE \o b \o QUOTE : b \in StringBodies }

\* string literals broken by a character that may not stand in a string, or
\* by the end of the file
BadStringChars == { "\n", "BEL", "0xC8" }
BadStringSources ==
    { QUOTE \o pre \o << c >> \o post \o QUOTE :
        pre \in {<< >>, << "a" >>}, c \in BadStringChars,
        post \in {<< >>, << "b" >>} }
    \cup { QUOTE \o pre : pre \in {<< >>, << "a" >>, << "a", "b" >>} }
    \cup { QUOTE \o << "\\", "q" >> \o QUOTE, QUOTE \o << "\\" >> }

\* string literals around the first size of the string buffer: n plain
\* characters, and n escapes
PlainString(n) == QUOTE \o [i \in 1 .. n |-> "a"] \o QUOTE
EscapeString(n) ==
    QUOTE \o [i \in 1 .. 2 * n |-> IF i % 2 = 1 THEN "\\" ELSE "n"] \o QUOTE
LongStringSources ==
    { PlainString(n) : n \in { MAX_INITIAL_STRING_LEN - 2,
                               MAX_INITIAL_STRING_LEN - 1,
                               MAX_INITIAL_STRING_LEN + 1 } }
    \cup { EscapeString(n) : n \in { (MAX_INITIAL_STRING_LEN \div 2) - 1,
                                     MAX_INITIAL_STRING_LEN \div 2 } }

\* the characters that start an operator of two characters, each followed
\* by nothing, by a character that completes it or by one that does not
OperatorSources ==
    { << c >> \o rest :
        c \in {"<", ">", ":"},
        rest \in { << >>, << "=" >>, << ">" >>, << "<" >>, << ":" >>,
                   << "x" >>, << "1" >>, << " ", "=" >>, << "\n", "=" >>,
                   << "=", "=" >>, << "=", "x" >>, << ">", "=" >>,
                   << "<", ">" >>, << "{", "}", "=" >> } }

\* token sequences with white space, line ends and comments between them
LayoutSources ==
    { << >>, << " " >>, << "\n" >>,
      << "a", "b", " ", "c", "d" >>, << "a", "\n", "b" >>,
      << " ", " ", "x", "\n", "\n", "\t", "y" >>,
      << ">", "=", " ", "<", ">", "<", "=" >>, << ":", "=", "=" >>,
      << "<", "\n", ">", ":", "=" >>, << ">" >>, << ">", "=" >>, << ":" >>,
      << ":", "x" >>,
      << "\"", "s", "\"", " ", "x" >>, << "\"", "\"", "\n", "+" >>,
      << "1", "2", " ", "p", ";" >>, << "x", "(", "1", ")", "." >>,
      << "{", "c", "}", "\n", " ", "x", "{", "\n", "}", "y" >>,
      << "a", "=", "b", "\r", "\n", "[", "0", "]" >>,
      << "-", "*", "/", ",", "\n", "i", "f" >>,
      LongWord(MAX_ID_LENGTH + 1) }

ScanSources ==
    Words \cup DigitStrings \cup StrayCharSources \cup CommentedSources
    \cup UnclosedCommentSources \cup EscapedStringSources
    \cup BadStringSources \cup LayoutSources \cup LongStringSources
    \cup OperatorSources

\* what the block malloc returns for a string may hold: a '\0' first, or
\* bytes left by earlier use
JunkOutcomes == { << >>, << "?" >> }

ScanInit ==
    /\ Starts(Globals0)
    /\ input \in ScanSources
    /\ junk \in JunkOutcomes
    /\ src_file = [bytes |-> << >>, offset |-> 0]
    /\ ch = NUL
    /\ column_number = 0
    /\ last_read = NUL
    /\ position = [line |-> 0, col |-> 0]
    /\ pc = "init_scanner"
    /\ nops = 0
    /\ opened = FALSE
    /\ preTable = NULL
    /\ outerSnap = NULL
    /\ inner = << >>
    /\ last = NoScan

ScanSpec == ScanInit /\ [][ScanNext]_vars


----------------------------------------------------------------------------
(* Properties of the scanner *)

\* C11: EOF is sticky. A call of get_token at the end of the input returns
\* the EOF token, and once get_token has returned the EOF token every later
\* call returns it too, without reading from the file or moving the
\* position.
C11_EOFSticky ==
    /\ (last.called /\ last.ch = EOF) =>
           (status = "run" /\ token.type = "TOKEN_EOF")
    /\ (last.called /\ last.n >= 1 /\ last.type = "TOKEN_EOF") =>
           /\ status = "run"
           /\ token.type = "TOKEN_EOF"
           /\ src_file.offset = last.offset
           /\ ch = last.ch
           /\ position = last.position

\* a call of get_token made after get_token returned EOF, on a file that is
\* not empty
C11_Witness ==
    /\ last.called /\ last.n >= 2 /\ last.type = "TOKEN_EOF" /\ last.ch = EOF
    /\ input # << >>
    /\ token.type = "TOKEN_EOF"

\* C12: a call of get_token that is not at the end of the input and does not
\* end the process has consumed at least one character, and a source that
\* begins with a character that starts no token ends the first call
\* fatally.
C12_TokenOrFatal ==
    /\ (last.called /\ last.ch # EOF /\ status = "run") =>
           (src_file.offset > last.offset \/ ch = EOF)
    /\ (last.called /\ last.n = 0 /\ input # << >>
            /\ input[1] \in NoTokenChars) =>
           status = "exit"

\* C13: a well-nested comment before a token changes nothing: the first call
\* of get_token on a comment followed by the word x returns the identifier
\* x, without a lexical error.
C13_CommentsSkipped ==
    (input \in CommentedSources /\ last.called /\ last.n = 0) =>
        /\ status = "run"
        /\ token.type = "TOKEN_ID"
        /\ token.lexeme = << "x" >>

\* the line and column of the i-th character of a text: lines and columns
\* count from 1, and a line end is the last character of its line
PosOf(text, i) ==
    LET ends == { j \in 1 .. i - 1 : text[j] = "\n" }
        last_end == IF ends = {} THEN 0
                    ELSE CHOOSE j \in ends : \A e \in ends : e <= j
    IN  [line |-> 1 + Cardinality(ends), col |-> i - last_end]

\* the index of the first opening brace of a text
FirstBrace(text) ==
    CHOOSE i \in 1 .. Len(text) :
        text[i] = "{" /\ \A j \in 1 .. i - 1 : text[j] # "{"

\* C14: when the input ends inside a comment, get_token ends the process
\* with "comment not closed" and the position reported is that of the
\* outermost opening brace.
C14_UnclosedCommentPosition ==
    (input \in UnclosedCommentSources /\ last.called /\ last.n = 0) =>
        /\ status = "exit"
        /\ err = "comment not closed"
        /\ position = PosOf(input, FirstBrace(input))

\* C15: when get_token returns a token other than EOF, the source position
\* is that of the first character of the token's lexeme, whatever white
\* space, line ends and comments precede it and however many characters
\* were read ahead.
C15_PositionAtLexemeStart ==
    (last.called /\ status = "run" /\ token.type # "TOKEN_EOF") =>
        position = PosOf(input, last.start)

\* C16: for a word within the length limit, process_word gives the token
\* type that the reserved table holds for exactly that word, and for a word
\* that is not in the table an identifier whose lexeme is the word.
C16_WordClassified ==
    (input \in Words /\ last.called /\ last.n = 0) =>
        LET hits == { i \in 1 .. NUM_RESERVED_WORDS : reserved[i].word = input }
        IN  /\ status = "run"
            /\ hits # {} => \E i \in hits : token.type = reserved[i].type
            /\ hits = {} => (token.type = "TOKEN_ID" /\ token.lexeme = input)

\* a reserved word has been scanned
C16_Witness ==
    /\ last.called /\ last.n = 0 /\ status = "run"
    /\ input \in ReservedWords
    /\ token.type \notin {"TOKEN_ID", "TOKEN_EOF"}

\* a digit string without its leading zeros
RECURSIVE StripZeros(_)
StripZeros(d) ==
    IF Len(d) > 1 /\ d[1] = "0" THEN StripZeros(Tail(d)) ELSE d

\* the digits of the largest int
MaxDigits == << "2", "1", "4", "7", "4", "8", "3", "6", "4", "7" >>

\* the decimal value of d is greater than that of MaxDigits: more digits,
\* or as many and a greater digit at the first place where they differ
Exceeds(d) ==
    LET s == StripZeros(d)
    IN  \/ Len(s) > Len(MaxDigits)
        \/ /\ Len(s) = Len(MaxDigits)
           /\ \E i \in 1 .. Len(s) :
                  /\ ascii(s[i]) > ascii(MaxDigits[i])
                  /\ \A j \in 1 .. i - 1 : s[j] = MaxDigits[j]

\* the decimal value of a digit string that does not exceed MaxDigits
RECURSIVE DecimalValue(_)
DecimalValue(d) ==
    IF d = << >> THEN 0
    ELSE 10 * DecimalValue(SubSeq(d, 1, Len(d) - 1))
             + (ascii(d[Len(d)]) - ascii("0"))

\* C17: process_number ends the process with "number too large" exactly
\* for the digit strings whose decimal value exceeds 2147483647, and gives
\* every other digit string as a NUMBER token with its decimal value.
C17_NumberRange ==
    (input \in DigitStrings /\ last.called /\ last.n = 0) =>
        IF Exceeds(input)
        THEN status = "exit" /\ err = "number too large"
        ELSE /\ status = "run"
             /\ token.type = "TOKEN_NUMBER"
             /\ token.value = DecimalValue(input)

\* the largest int has been scanned
C17_Witness ==
    /\ last.called /\ last.n = 0 /\ status = "run"
    /\ input = MaxDigits
    /\ token.type = "TOKEN_NUMBER" /\ token.value = 2147483647

\* the byte that an escape letter stands for
Decoded(c) ==
    CASE c = "n" -> "\n" [] c = "t" -> "\t" [] OTHER -> c

\* the bytes of a string body with each escape replaced by its byte
RECURSIVE Unescape(_)
Unescape(b) ==
    IF b = << >> THEN << >>
    ELSE IF b[1] = "\\" /\ Len(b) >= 2
    THEN << Decoded(b[2]) >> \o Unescape(SubSeq(b, 3, Len(b)))
    ELSE << b[1] >> \o Unescape(Tail(b))

\* C18: the STRING token holds the decoded bytes of the literal: one byte
\* for each escape, and no backslash of an escape.
C18_StringDecoded ==
    (input \in EscapedStringSources /\ last.called /\ last.n = 0) =>
        /\ status = "run"
        /\ token.type = "TOKEN_STRING"
        /\ token.string = Unescape(SubSeq(input, 2, Len(input) - 1))

\* C19: a string literal holding a line end, a character that is not
\* printable ASCII or an escape that is not one of the four, at any place
\* between its quotes, or cut short by the end of the input, ends the
\* process.
C19_BadStringFatal ==
    (input \in BadStringSources /\ last.called /\ last.n = 0) =>
        status = "exit"

\* C20: a program the parser accepts is derivable from the grammar: a
\* function definition that is accepted has at most one `to type` clause.
C20_AtMostOneToClause ==
    \A ts \in ToLists :
        (input = ToClauseProg(ts) /\ Accepted) => Len(ts) <= 1

----------------------------------------------------------------------------
(* Properties of the emitted code *)

\* integer division and remainder as the JVM computes them: the quotient is
\* rounded toward zero
tdiv(a, b) ==
    LET abs(x) == IF x < 0 THEN -x ELSE x
        q == abs(a) \div abs(b)
    IN  IF (a < 0) # (b < 0) THEN -q ELSE q
trem(a, b) == a - b * tdiv(a, b)

\* the value of an expression tree
RECURSIVE Eval(_)
Eval(t) ==
    IF t.k = "num" THEN t.v
    ELSE IF t.k = "neg" THEN -Eval(t.x)
    ELSE CASE t.op = "TOKEN_PLUS" -> Eval(t.l) + Eval(t.r)
           [] t.op = "TOKEN_MINUS" -> Eval(t.l) - Eval(t.r)
           [] t.op = "TOKEN_MULTIPLY" -> Eval(t.l) * Eval(t.r)
           [] t.op = "TOKEN_DIVIDE" -> tdiv(Eval(t.l), Eval(t.r))
           [] t.op = "TOKEN_REMAINDER" -> trem(Eval(t.l), Eval(t.r))

\* one instruction of a stack machine; m is [ok, stack], the top of the
\* stack last
StackStep(m, ins) ==
    LET n == Len(m.stack)
        top == m.stack[n]
        under == m.stack[n - 1]
        bin(v) == [m EXCEPT !.stack = Append(SubSeq(m.stack, 1, n - 2), v)]
        fail == [m EXCEPT !.ok = FALSE]
    IN  IF ~m.ok THEN m
        ELSE IF ins.op = "gen_2" /\ ins.a = "JVM_LDC"
        THEN [m EXCEPT !.stack = Append(@, ins.n)]
        ELSE IF ins.op # "gen_1" THEN fail
        ELSE IF ins.a = "JVM_INEG"
        THEN IF n < 1 THEN fail ELSE [m EXCEPT !.stack[n] = -top]
        ELSE IF n < 2 THEN fail
        ELSE CASE ins.a = "JVM_IADD" -> bin(under + top)
               [] ins.a = "JVM_ISUB" -> bin(under - top)
               [] ins.a = "JVM_IMUL" -> bin(under * top)
               [] ins.a = "JVM_IDIV" ->
                      IF top = 0 THEN fail ELSE bin(tdiv(under, top))
               [] ins.a = "JVM_IREM" ->
                      IF top = 0 THEN fail ELSE bin(trem(under, top))
               [] OTHER -> fail

\* the machine after the instructions from the i-th on
RECURSIVE StackRun(_, _, _)
StackRun(m, prog, i) ==
    IF i > Len(prog) THEN m ELSE StackRun(StackStep(m, prog[i]), prog, i + 1)

\* the emitter calls of an accepted ExprProg between the start of main and
\* the store to x: the code of the expression
ExprCode == SubSeq(code, 4, Len(code) - 4)

\* C21: the emitter calls made for an integer expression are a postfix
\* program that leaves the value of the expression, with mulops binding
\* tighter than addops and operators of one level taken from the left, and
\* the main method ends with RETURN.
C21_PostfixValue ==
    \A t \in ExprTrees :
        (input = ExprProg(t) /\ Accepted) =>
            /\ StackRun([ok |-> TRUE, stack |-> << >>], ExprCode, 1)
                   = [ok |-> TRUE, stack |-> << Eval(t) >>]
            /\ code[Len(code) - 3] = [op |-> "gen_2", a |-> "JVM_ISTORE", n |-> 0]
            /\ code[Len(code) - 2] = [op |-> "gen_1", a |-> "JVM_RETURN", n |-> 0]

\* 2 + 3 * 4 has been compiled, and its code leaves 14
C21_Witness ==
    /\ input = ExprProg(TwoPlusThreeTimesFour) /\ Accepted
    /\ StackRun([ok |-> TRUE, stack |-> << >>], ExprCode, 1).stack = << 14 >>

\* the emitter calls of an accepted program with no function definition,
\* between the start of main and its RETURN
MainCode == SubSeq(code, 4, Len(code) - 3)

\* C22: for `while c do s end` the emitter receives a label L_head, the
\* code of c, a conditional branch to a label L_exit, the code of s, a goto
\* L_head and the label L_exit, the two labels being distinct.
C22_WhileLabels ==
    (input = WhileProg /\ Accepted) =>
        LET n == Len(MainCode)
        IN  /\ n >= 5
            /\ MainCode[1].op = "gen_label"
            /\ MainCode[n].op = "gen_label"
            /\ MainCode[1].n # MainCode[n].n
            /\ MainCode[n - 1] =
                   [op |-> "gen_2_label", a |-> "JVM_GOTO", n |-> MainCode[1].n]
            /\ \E k \in 3 .. n - 2 :
                   /\ MainCode[k].op = "gen_2_label"
                   /\ MainCode[k].n = MainCode[n].n

\* C23: for a call with arguments, the code of the arguments is emitted in
\* their order and the call of the callee after the code of the last one.
C23_ArgumentsBeforeCall ==
    \A ps \in ParamLists, as \in ArgLists :
        (input = SelfCallProg(ps, as) /\ Accepted) =>
            \E i \in 1 .. Len(code) :
                /\ code[i] = [op |-> "gen_call", a |-> "f", n |-> 0]
                /\ i > Len(as)
                /\ \A j \in 1 .. Len(as) :
                       code[i - Len(as) + j - 1] =
                           [op |-> "gen_2", a |-> "JVM_LDC", n |-> 1]

\* C24: the max_locals given to the emitter when a subroutine is closed
\* exceeds every local slot used by a load or a store emitted for it.
C24_MaxLocalsCoversSlots ==
    \A k \in LocalCounts :
        (input = LocalsProg(k) /\ Accepted) =>
            /\ code[Len(code) - 1].op = "close_subroutine_codegen"
            /\ \A i \in 1 .. Len(code) :
                   (code[i].op = "gen_2"
                        /\ code[i].a \in {"JVM_ILOAD", "JVM_ISTORE"}) =>
                       code[Len(code) - 1].n > code[i].n

\* the ValType a type token stands for
TypeOfToken(toktype) ==
    IF toktype = "TOKEN_INTEGER" THEN TYPE_INTEGER ELSE TYPE_BOOLEAN

\* C25: the property record inserted for a function with n parameters has
\* parameter count n and the parameters' types in their order, for every n.
C25_ParamTypesRecorded ==
    \A ps \in DeclaredLists :
        (input = OpenFuncProg(ps) /\ Finished) =>
            /\ table # NULL
            /\ LET r == ht_search(heap[table], "f")
               IN  /\ r.found
                   /\ r.value.nparams = Len(ps)
                   /\ r.value.params =
                          [i \in 1 .. Len(ps) |-> TypeOfToken(ps[i])]

\* C26: the entry made for `function f() to T` is a callable with return
\* base T, and the entry made for a definition without a `to` clause is a
\* callable with return base NONE.
C26_ReturnBaseRecorded ==
    /\ \A T \in ScalarTypes :
           (input = OpenFuncToProg(T) /\ Finished) =>
               /\ table # NULL
               /\ LET r == ht_search(heap[table], "f")
                  IN  /\ r.found
                      /\ r.value.type = TYPE_CALLABLE \cup TypeOfToken(T)
    /\ (input = OpenFuncProg(<< >>) /\ Finished) =>
           /\ table # NULL
           /\ LET r == ht_search(heap[table], "f")
              IN  r.found /\ r.value.type = TYPE_CALLABLE

\* C27: `x := array 1` emits the code of the length and then one NEWARRAY
\* of x's element kind, and the type in a variable definition emits
\* nothing.
C27_NewarrayAtAllocation ==
    /\ (input = ArrayAllocProg /\ Accepted) =>
           MainCode = << [op |-> "gen_2", a |-> "JVM_LDC", n |-> 1],
                         [op |-> "gen_newarray", a |-> "T_INT", n |-> 0] >>
    /\ (input = ArrayDeclProg /\ Accepted) => MainCode = << >>

----------------------------------------------------------------------------
(* HtSpec: the hash table under a sequence of inserts with distinct keys *)

\* number of ht_insert calls explored by HtSpec
MaxInserts == 25

\* the keys in the order of their insertion: the alphabet forward, backward,
\* and from the middle outward
HtKeyOrders ==
    LET n == Len(KeyLetters)
    IN  { KeyLetters,
          [i \in 1 .. n |-> KeyLetters[n + 1 - i]],
          [i \in 1 .. n |-> KeyLetters[IF i % 2 = 1 THEN (n \div 2) + ((i + 1) \div 2)
                                       ELSE (n \div 2) + 1 - (i \div 2)]] }

\* nothing looked up yet
NoSearch == [op |-> "none", id |-> "", found |-> FALSE, value |-> 0, n |-> 0]

\* table = ht_init(0.75f, shift_hash, key_strcmp)
HtInit ==
    /\ Starts(init_symbol_table(Globals0))
    /\ ScannerClosed
    /\ pc = "hashtab"
    /\ input \in HtKeyOrders
    /\ nops = 0
    /\ opened = FALSE
    /\ preTable = NULL
    /\ outerSnap = NULL
    /\ inner = << >>
    /\ last = NoSearch

\* ht_insert(table, key, value) with the next key; the value is the number
\* of the insert
HtInsert ==
    /\ pc = "hashtab" /\ nops < MaxInserts /\ nops < Len(input)
    /\ heap' = [heap EXCEPT ![table] = ht_insert(@, input[nops + 1], nops + 1)]
    /\ nops' = nops + 1
    /\ last' = NoSearch
    /\ UNCHANGED scanner_vars
    /\ UNCHANGED << table, saved_table, curr_offset, token, return_type,
                    off_counter, counters, src, code, pc, status, exit_code,
                    err, input, wild, opened, preTable, outerSnap, inner >>

\* ht_search(table, key, &value) for a key inserted before
HtSearch ==
    /\ pc = "hashtab" /\ nops > 0
    /\ \E i \in 1 .. nops :
         LET r == ht_search(heap[table], input[i])
         IN  last' = [op |-> "search", id |-> input[i], found |-> r.found,
                      value |-> IF r.found THEN r.value ELSE 0, n |-> i]
    /\ UNCHANGED scanner_vars
    /\ UNCHANGED << table, saved_table, curr_offset, heap, token, return_type,
                    off_counter, counters, src, code, pc, status, exit_code,
                    err, input, wild, nops, opened, preTable, outerSnap,
                    inner >>

HtNext == HtInsert \/ HtSearch

HtSpec == HtInit /\ [][HtNext]_vars

----------------------------------------------------------------------------
(* Properties of the hash table *)

\* the table sizes in the order of growth
GrowthSizes == << 31, 61, 127, 251 >>

\* the size of a table that holds n entries: the first size whose load
\* factor n entries do not push above 0.75
RECURSIVE SizeFor(_, _)
SizeFor(n, i) ==
    IF 4 * n > 3 * GrowthSizes[i] THEN SizeFor(n, i + 1) ELSE GrowthSizes[i]

\* C28: after any number of inserts with distinct keys, those that make the
\* table grow included, the table handle is not released, the table has
\* the size its number of entries asks for, and ht_search finds every key
\* with the value it was inserted with.
C28_TableSurvivesGrowth ==
    pc = "hashtab" =>
        /\ ~heap[table].released
        /\ heap[table].size = SizeFor(nops, 1)
        /\ heap[table].num_entries = nops
        /\ last.op = "search" => (last.found /\ last.value = last.n)

----------------------------------------------------------------------------
(* Properties of the string buffer *)

\* C29: while get_token scans a string literal, of any length and any mix
\* of plain characters and escapes, no byte and no terminator is stored
\* past the end of the string buffer.
C29_StringBufferNeverOverrun ==
    last.called => ~last.overrun

----------------------------------------------------------------------------
(* Properties of the operators *)

\* the token of an operator that starts with c1 and is followed by c2, and
\* the number of characters it takes; "fatal" where the process ends
OperatorToken(c1, c2) ==
    CASE c1 = "<" /\ c2 = "=" -> [type |-> "TOKEN_LESS_EQUAL", len |-> 2]
      [] c1 = "<" /\ c2 = ">" -> [type |-> "TOKEN_NOT_EQUAL", len |-> 2]
      [] c1 = "<" /\ c2 \notin {"=", ">"} -> [type |-> "TOKEN_LESS_THAN", len |-> 1]
      [] c1 = ">" /\ c2 = "=" -> [type |-> "TOKEN_GREATER_EQUAL", len |-> 2]
      [] c1 = ">" /\ c2 # "=" -> [type |-> "TOKEN_GREATER_THAN", len |-> 1]
      [] c1 = ":" /\ c2 = "=" -> [type |-> "TOKEN_GETS", len |-> 2]
      [] c1 = ":" /\ c2 # "=" -> [type |-> "fatal", len |-> 0]

\* the character of the input at place i, EOF past its end
InputAt(i) == IF i <= Len(input) THEN input[i] ELSE EOF

\* C30: operators are scanned by longest match. A call of get_token that
\* finds `<`, `>` or `:` as the first character of its token gives the
\* two-character token when the next character completes one and has then
\* passed both characters; otherwise it gives the one-character token of
\* `<` or `>` and leaves the next character as the current one; `:` not
\* followed by `=` ends the process.
C30_LongestMatchOperators ==
    (last.called /\ last.first \in {"<", ">", ":"}) =>
        LET e == OperatorToken(last.first, InputAt(last.start + 1))
        IN  IF e.type = "fatal" THEN status = "exit"
            ELSE /\ status = "run"
                 /\ token.type = e.type
                 /\ ch = InputAt(last.start + e.len)
                 /\ src_file.offset = IF last.start + e.len <= Len(input)
                                      THEN last.start + e.len ELSE Len(input)

\* get_token has scanned `<>` as one token, NOT_EQUAL
C30_Witness ==
    /\ last.called /\ last.first = "<" /\ InputAt(last.start + 1) = ">"
    /\ status = "run" /\ token.type = "TOKEN_NOT_EQUAL"
    /\ ch = InputAt(last.start + 2)

----------------------------------------------------------------------------
(* Properties of the local slots *)

\* the loads and stores of local slots among the emitter calls, in order
SlotCode ==
    SelectSeq(code, LAMBDA c : c.op = "gen_2" /\ c.a \in {"JVM_ILOAD", "JVM_ISTORE"})

\* C31: within one body the store emitted for `v := expr` and the load
\* emitted for a later read of v use the same slot, and two variables of the
\* scope use different slots, whatever the number of declarations and the
\* variables assigned: for `v := 1; w := v` the store of v and the load of v
\* agree, and the store of w uses the slot of v exactly when w is v.
C31_StoreLoadSlotsAgree ==
    \A c \in SlotChoices :
        (input = SlotProg(c[1], c[2], c[3]) /\ Accepted) =>
            /\ Len(SlotCode) = 3
            /\ SlotCode[1].a = "JVM_ISTORE"
            /\ SlotCode[2].a = "JVM_ILOAD"
            /\ SlotCode[3].a = "JVM_ISTORE"
            /\ SlotCode[1].n = SlotCode[2].n
            /\ (SlotCode[3].n = SlotCode[1].n) <=> (c[2] = c[3])

============================================================================
